---- MODULE Spec2Model ----
(***************************************************************************)
(* Expense tracker: the transaction store with its writers (manual entry,  *)
(* edit, CSV import, recurring generation) and the analysis functions of   *)
(* utils/analysis.py, modelled as state machines over small input sets.    *)
(***************************************************************************)
EXTENDS Integers, Sequences, FiniteSets, TLC

\* ------------------------------------------------------------------ bounds
\* number of transactions a user may enter by hand or import into the store
MaxStore == 2
\* number of transactions in the data directory when the generator starts
MaxInit == 2
\* number of consecutive calls of one function explored
MaxCalls == 2
\* number of edits and deletions explored
MaxEdits == 1

\* ------------------------------------------------------------- float values
\* A Python float is either a finite number or NaN.  Finite values are whole
\* currency units, for which float arithmetic is exact.
Num(n) == [k |-> "num", v |-> n]
NaN == [k |-> "nan", v |-> 0]
FIsNaN(a) == a.k = "nan"
\* comparisons with NaN are always False
FLe0(a) == a.k = "num" /\ a.v <= 0
FGt0(a) == a.k = "num" /\ a.v > 0
FLt0(a) == a.k = "num" /\ a.v < 0
FGe0(a) == a.k = "num" /\ a.v >= 0
FEq(a, b) == a.k = "num" /\ b.k = "num" /\ a.v = b.v
FAbs(a) == IF a.k = "nan" THEN NaN ELSE Num(IF a.v < 0 THEN -a.v ELSE a.v)
FNeg(a) == IF a.k = "nan" THEN NaN ELSE Num(-a.v)
FAdd(a, b) == IF a.k = "nan" \/ b.k = "nan" THEN NaN ELSE Num(a.v + b.v)
FSub(a, b) == IF a.k = "nan" \/ b.k = "nan" THEN NaN ELSE Num(a.v - b.v)

\* float(s) for the strings a user can type: ok = FALSE is ValueError
AmountStrs == {"10", "20", "-10", "0", "nan", "abc"}
ParseFloat(s) ==
  CASE s = "10" -> [ok |-> TRUE, val |-> Num(10)]
    [] s = "20" -> [ok |-> TRUE, val |-> Num(20)]
    [] s = "-10" -> [ok |-> TRUE, val |-> Num(-10)]
    [] s = "0" -> [ok |-> TRUE, val |-> Num(0)]
    [] s = "nan" -> [ok |-> TRUE, val |-> NaN]
    [] OTHER -> [ok |-> FALSE, val |-> NaN]

\* ------------------------------------------------------------------- dates
\* A date string "YYYY-MM-DD" is the triple <<y, m, d>>; None is NoDate.
NoDate == <<0, 0, 0>>
IsLeap(y) == (y % 4 = 0 /\ y % 100 # 0) \/ y % 400 = 0
DaysInMonth(y, m) ==
  IF m = 2 THEN (IF IsLeap(y) THEN 29 ELSE 28)
  ELSE IF m \in {4, 6, 9, 11} THEN 30 ELSE 31
\* datetime.strptime(s, "%Y-%m-%d") succeeds exactly on these
ValidDate(dt) ==
  /\ dt[1] >= 1 /\ dt[1] <= 9999
  /\ dt[2] >= 1 /\ dt[2] <= 12
  /\ dt[3] >= 1 /\ dt[3] <= DaysInMonth(dt[1], dt[2])
\* order of the zero-padded strings
DateKey(dt) == dt[1] * 10000 + dt[2] * 100 + dt[3]
DateLt(a, b) == DateKey(a) < DateKey(b)
DateLe(a, b) == DateKey(a) <= DateKey(b)
NextDay(dt) ==
  IF dt[3] < DaysInMonth(dt[1], dt[2]) THEN <<dt[1], dt[2], dt[3] + 1>>
  ELSE IF dt[2] < 12 THEN <<dt[1], dt[2] + 1, 1>>
  ELSE <<dt[1] + 1, 1, 1>>
\* dt + timedelta(days=n), for n of at most 28 days: one month end at most
AddDays(dt, n) ==
  IF dt[3] + n <= DaysInMonth(dt[1], dt[2]) THEN <<dt[1], dt[2], dt[3] + n>>
  ELSE IF dt[2] < 12
  THEN <<dt[1], dt[2] + 1, dt[3] + n - DaysInMonth(dt[1], dt[2])>>
  ELSE <<dt[1] + 1, 1, dt[3] + n - 31>>
\* datetime.replace(...): ok = FALSE is ValueError (day out of range)
Replace(dt, y, m) ==
  [ok |-> ValidDate(<<y, m, dt[3]>>), date |-> <<y, m, dt[3]>>]

\* --------------------------------------------------------------- the store
VARIABLES
  store,     \* the expense files on disk: a set of Expense records
  today,     \* datetime.now() as a date
  nextId,    \* the next fresh uuid
  calls,     \* number of generate_recurring_expenses calls made
  last,      \* what the most recent operation did
  category_to_id,  \* ExpensesFrame.category_to_id: which dropdown map is held
  edits,     \* number of edits and deletions made
  expenses,  \* the list of Expense objects handed to the analysis functions
  categories_dict,  \* the category lookup handed to them
  result,    \* what the most recent analysis call returned
  categories \* the category files on disk: a set of category records

storeVars == <<store, nextId, calls, last, category_to_id, edits>>
anVars == <<expenses, categories_dict, result>>
vars == <<store, today, nextId, calls, last, category_to_id, edits,
          expenses, categories_dict, result, categories>>

NoneStr == "None"
Users == {"u1", "u2"}
Periods == {"daily", "weekly", "monthly", "yearly"}

\* Expense.__init__ (created_at is not modelled: nothing reads it)
Expense(amount, category_id, date, description, expense_id, user_id, payment_method, recurring, recurring_period, recurring_end_date, tags, is_income, now) ==
  [amount |-> amount,
   category_id |-> category_id,
   date |-> IF date # NoDate THEN date ELSE now,
   description |-> description,
   expense_id |-> expense_id,
   user_id |-> user_id,
   payment_method |-> payment_method,
   recurring |-> recurring,
   recurring_period |-> recurring_period,
   recurring_end_date |-> recurring_end_date,
   tags |-> tags,
   is_income |-> is_income]

\* Expense.save: one file per (user_id, expense_id); refuses a missing user
Save(st, e) ==
  IF e.user_id = NoneStr THEN st
  ELSE {x \in st : ~(x.user_id = e.user_id /\ x.expense_id = e.expense_id)}
       \cup {e}

\* Expense.get_user_expenses without filters: the user's files in directory
\* order, then a stable sort by date string, most recent first.  Directory
\* order is arbitrary, so every order with non-increasing dates is possible.
RECURSIVE get_user_expenses(_)
get_user_expenses(S) ==
  IF S = {} THEN {<<>>}
  ELSE UNION {{<<x>> \o t : t \in get_user_expenses(S \ {x})} :
              x \in {y \in S : \A z \in S : DateLe(z.date, y.date)}}

UserFiles(st, user_id) == {x \in st : x.user_id = user_id}

\* ------------------------------------------- generate_recurring_expenses
\* lines 252-266: ok = FALSE is a ValueError out of strptime or replace;
\* date = NoDate is next_date None
\* a generator that skips a period for daily and weekly series
NextDateSkip(period, latest) ==
  IF ~ValidDate(latest) THEN [ok |-> FALSE, date |-> NoDate]
  ELSE CASE period = "daily" -> [ok |-> TRUE, date |-> AddDays(latest, 2)]
         [] period = "weekly" -> [ok |-> TRUE, date |-> AddDays(latest, 14)]
         [] period = "monthly" ->
              LET r == Replace(latest, latest[1], (latest[2] % 12) + 1)
              IN IF r.ok /\ latest[2] = 12
                 THEN Replace(r.date, latest[1] + 1, r.date[2])
                 ELSE r
         [] period = "yearly" -> Replace(latest, latest[1] + 1, latest[2])
         [] OTHER -> [ok |-> TRUE, date |-> NoDate]
\* lines 252-266, as written
NextDate(period, latest) ==
  IF ~ValidDate(latest) THEN [ok |-> FALSE, date |-> NoDate]
  ELSE CASE period = "daily" -> [ok |-> TRUE, date |-> AddDays(latest, 1)]
         [] period = "weekly" -> [ok |-> TRUE, date |-> AddDays(latest, 7)]
         [] period = "monthly" ->
              LET r == Replace(latest, latest[1], (latest[2] % 12) + 1)
              IN IF r.ok /\ latest[2] = 12
                 THEN Replace(r.date, latest[1] + 1, r.date[2])
                 ELSE r
         [] period = "yearly" -> Replace(latest, latest[1] + 1, latest[2])
         [] OTHER -> [ok |-> TRUE, date |-> NoDate]

\* lines 246-247: the stored transactions of the same series
Instances(all, e) ==
  LET Same(x) == /\ x.description = e.description
                 /\ FEq(x.amount, e.amount)
                 /\ x.category_id = e.category_id
  IN SelectSeq(all, Same)

\* line 249: max(instances, key=date), the date of the latest instance
LatestDate(inst) ==
  LET ds == {inst[i].date : i \in 1..Len(inst)}
  IN CHOOSE d \in ds : \A o \in ds : DateLe(o, d)

\* line 242: the series has ended
Ended(e, current_date) ==
  e.recurring_end_date # NoDate /\ DateLt(e.recurring_end_date, current_date)

\* the next date exists, whenever it is
DueAnyDay(next_date, current_date) == next_date # NoDate
\* line 269: the next date exists and is not in the future
Due(next_date, current_date) ==
  next_date # NoDate /\ DateLe(next_date, current_date)

\* lines 240-287, from the i-th recurring expense on.  acc holds the
\* expenses created so far, each with the template it came from and the
\* dates it was computed from.
RECURSIVE GenLoop(_, _, _, _, _, _, _)
GenLoop(rec, i, all, user_id, current_date, nid, acc) ==
  IF i > Len(rec) THEN [created |-> acc, raised |-> FALSE]
  ELSE
    LET expense == rec[i] IN
    IF Ended(expense, current_date)
    THEN GenLoop(rec, i + 1, all, user_id, current_date, nid, acc)
    ELSE
      LET instances == Instances(all, expense) IN
      IF instances = <<>> THEN [created |-> acc, raised |-> TRUE]
      ELSE
        LET latest_date == LatestDate(instances)
            nd == NextDate(expense.recurring_period, latest_date)
        IN IF ~nd.ok THEN [created |-> acc, raised |-> TRUE]
           ELSE IF Due(nd.date, current_date)
           THEN LET new_expense ==
                      Expense(expense.amount, expense.category_id, nd.date,
                              expense.description, nid + Len(acc), user_id,
                              expense.payment_method, TRUE,
                              expense.recurring_period,
                              expense.recurring_end_date, expense.tags,
                              expense.is_income, current_date)
                IN GenLoop(rec, i + 1, all, user_id, current_date, nid,
                           Append(acc, [exp |-> new_expense,
                                        from |-> expense,
                                        latest |-> latest_date,
                                        next |-> nd.date]))
           ELSE GenLoop(rec, i + 1, all, user_id, current_date, nid, acc)

RECURSIVE SaveAll(_, _, _)
SaveAll(st, acc, i) ==
  IF i > Len(acc) THEN st ELSE SaveAll(Save(st, acc[i].exp), acc, i + 1)

IsRecurring(x) == x.recurring

\* lines 229-289: what one call reads, writes and returns
GenerateCall(user_id) ==
  \E all \in get_user_expenses(UserFiles(store, user_id)) :
    LET recurring_expenses == SelectSeq(all, IsRecurring)
        r == GenLoop(recurring_expenses, 1, all, user_id, today, nextId,
                     <<>>)
    IN /\ store' = SaveAll(store, r.created, 1)
       /\ nextId' = nextId + Len(r.created)
       /\ last' = [op |-> "generate", user_id |-> user_id,
                   today |-> today, before |-> store,
                   created |-> r.created, raised |-> r.raised]
\* Expense.generate_recurring_expenses(user_id)
GenerateRecurring(user_id) ==
  /\ calls < MaxCalls
  /\ GenerateCall(user_id)
  /\ calls' = calls + 1
  /\ UNCHANGED <<today, category_to_id, edits, anVars, categories>>
\* the same call made again and again, with nothing else in between
GenerateAgain(user_id) ==
  /\ GenerateCall(user_id)
  /\ UNCHANGED <<calls, today, category_to_id, edits, anVars, categories>>

\* the clock moves forward between operations
Todays == {<<2024, 2, 1>>, <<2024, 3, 1>>, <<2025, 1, 20>>}
Tick ==
  /\ \E t \in Todays : DateLt(today, t) /\ today' = t
  /\ UNCHANGED <<storeVars, anVars, categories>>

NoResult ==
  [fn |-> "none", now |-> NoDate, raised |-> "none", value |-> <<>>]
NoOp == [op |-> "init", user_id |-> NoneStr, today |-> NoDate, before |-> {},
         created |-> <<>>, raised |-> FALSE]

\* ------------------------------------- data directories the generator meets
SeedDates == <<<<2023, 12, 15>>, <<2024, 1, 15>>, <<2024, 1, 31>>>>
SeedShapes ==
  <<[recurring |-> FALSE, period |-> NoneStr, end |-> NoDate],
    [recurring |-> TRUE, period |-> "monthly", end |-> NoDate],
    [recurring |-> TRUE, period |-> "monthly", end |-> <<2024, 1, 1>>],
    [recurring |-> TRUE, period |-> "monthly", end |-> <<2024, 3, 1>>],
    [recurring |-> TRUE, period |-> "weekly", end |-> NoDate],
    [recurring |-> TRUE, period |-> "daily", end |-> <<2024, 2, 1>>],
    [recurring |-> TRUE, period |-> "yearly", end |-> NoDate]>>
SeedProfiles ==
  <<[description |-> "rent", amount |-> Num(10), category_id |-> "c1",
     user_id |-> "u1", payment_method |-> "Cash", tags |-> <<"home">>,
     is_income |-> FALSE],
    [description |-> "salary", amount |-> Num(20), category_id |-> "c2",
     user_id |-> "u1", payment_method |-> NoneStr, tags |-> <<>>,
     is_income |-> TRUE],
    [description |-> "rent", amount |-> Num(10), category_id |-> "c1",
     user_id |-> "u2", payment_method |-> "Cash", tags |-> <<>>,
     is_income |-> FALSE],
    [description |-> "rent", amount |-> NaN, category_id |-> "c1",
     user_id |-> "u1", payment_method |-> "Cash", tags |-> <<>>,
     is_income |-> FALSE]>>
\* the first two profiles come with every date and shape, the other two
\* with one monthly shape only
NFull == 2 * Len(SeedDates) * Len(SeedShapes)
NSeeds == NFull + 2
Seed(i) ==
  LET full == i <= NFull
      d == IF full THEN SeedDates[((i - 1) % Len(SeedDates)) + 1]
           ELSE SeedDates[2]
      sh == IF full
            THEN SeedShapes[(((i - 1) \div Len(SeedDates)) % Len(SeedShapes)) + 1]
            ELSE SeedShapes[2]
      p == IF full
           THEN SeedProfiles[((i - 1) \div (Len(SeedDates) * Len(SeedShapes))) + 1]
           ELSE SeedProfiles[i - NFull + 2]
  IN Expense(p.amount, p.category_id, d, p.description, i, p.user_id,
             p.payment_method, sh.recurring, sh.period, sh.end, p.tags,
             p.is_income, d)

\* The generator starts from a data directory holding up to MaxInit expense
\* files written earlier.
RECURSIVE SeedSets(_)
SeedSets(n) ==
  IF n = 0 THEN {{}}
  ELSE LET P == SeedSets(n - 1)
       IN P \cup {s \cup {i} : s \in P, i \in 1..NSeeds}
InitGen ==
  /\ categories = {}
  /\ \E S \in SeedSets(MaxInit) : store = {Seed(i) : i \in S}
  /\ today \in Todays
  /\ nextId = NSeeds + 1
  /\ calls = 0
  /\ last = NoOp
  /\ category_to_id = "unset"
  /\ edits = 0
  /\ expenses = <<>>
  /\ categories_dict = <<>>
  /\ result = NoResult

NextGen == (\E u \in Users : GenerateRecurring(u)) \/ Tick
SpecGen == InitGen /\ [][NextGen]_vars

\* Repeated calls on one day.  The data directory holds up to MaxInit of the
\* files below, whose series are at most two periods behind that day so that
\* the store stays small; the caller calls again as long as a call changes
\* anything.
RepeatDay == <<2024, 2, 1>>
\* of the first user's rent: a one-off on 01-15, monthly from 12-15 and from
\* 01-31, monthly from 01-15 ended on 01-01, weekly from 01-15, daily from
\* 01-31 until 02-01, yearly from 01-15; the monthly salary from 12-15; the
\* other user's rent; the rent with amount NaN
RepeatSeeds == {2, 4, 6, 8, 14, 18, 20, 25, 43, 44}
InitRepeat ==
  /\ categories = {}
  /\ \E S \in SeedSets(MaxInit) :
       S \subseteq RepeatSeeds /\ store = {Seed(i) : i \in S}
  /\ today = RepeatDay
  /\ nextId = NSeeds + 1
  /\ calls = 0
  /\ last = NoOp
  /\ category_to_id = "unset"
  /\ edits = 0
  /\ expenses = <<>>
  /\ categories_dict = <<>>
  /\ result = NoResult
NextRepeat == GenerateAgain("u1")
SpecRepeat == InitRepeat /\ [][NextRepeat]_vars /\ WF_vars(NextRepeat)

\* ------------------------------------------------------ the expenses screen
\* ExpensesFrame._update_category_list: display name -> category id, for the
\* categories of one transaction type ("None" is a missing key)
CategoryToId(kind, name) ==
  CASE kind = "expense" /\ name = "Food" -> "c1"
    [] kind = "expense" /\ name = "Food > Groceries" -> "c3"
    [] kind = "income" /\ name = "Income" -> "c2"
    [] OTHER -> NoneStr

\* [tag.strip() for tag in tags_str.split(",") if tag.strip()]
TagStrs == {"home, ,bills"}
ParseTags(tags_str) ==
  CASE tags_str = "" -> <<>>
    [] tags_str = "home, ,bills" -> <<"home", "bills">>
    [] OTHER -> <<tags_str>>

TypeStrs == {"expense", "income"}
CategoryStrs == {"", "Food"}
PaymentStrs == {""}
EntryDates == {<<2024, 1, 15>>}
EndDates == {<<2024, 3, 1>>}
UiPeriods == {"monthly"}
Descriptions == {"rent"}

UiOp(name, user_id) == [NoOp EXCEPT !.op = name, !.user_id = user_id]

\* lines 634-642 and 868-876: the amount the form accepts, ok = FALSE when
\* the handler sets an error message and returns
ValidateAmount(amount_str) ==
  LET p == ParseFloat(amount_str)
  IN IF ~p.ok THEN [ok |-> FALSE, amount |-> NaN]
     ELSE IF FLe0(p.val) THEN [ok |-> FALSE, amount |-> NaN]
     ELSE [ok |-> TRUE, amount |-> p.val]

\* ExpensesFrame._save_new_expense, after the add dialog was opened for
\* type_str; user_id "None" is nobody logged in
SaveNewExpense(user_id, type_str, amount_str, date_obj, category_str, description, payment_method, recurring, period, end_date, tags_str) ==
  LET a == ValidateAmount(amount_str)
      category_id == IF category_str # ""
                     THEN CategoryToId(type_str, category_str) ELSE NoneStr
      expense == Expense(a.amount, category_id, date_obj, description, nextId,
                         user_id,
                         IF payment_method # "" THEN payment_method
                         ELSE NoneStr,
                         recurring,
                         IF recurring THEN period ELSE NoneStr,
                         IF recurring THEN end_date ELSE NoDate,
                         ParseTags(tags_str), type_str = "income", today)
      rejected == \/ user_id = NoneStr
                  \/ ~a.ok
                  \/ (category_str = "" /\ type_str = "expense")
  IN /\ nextId <= MaxStore
     /\ category_to_id' = type_str
     /\ IF rejected
        THEN UNCHANGED <<store, nextId, last>>
        ELSE /\ store' = Save(store, expense)
             /\ nextId' = nextId + 1
             /\ last' = UiOp("save_new", user_id)
     /\ UNCHANGED <<today, calls, edits, anVars, categories>>

\* ExpensesFrame._update_expense on one of the listed expenses
UpdateExpense(expense, type_str, amount_str, date_obj, category_str, description, payment_method, recurring, period, end_date, tags_str) ==
  LET a == ValidateAmount(amount_str)
      updated == [expense EXCEPT
                    !.amount = a.amount,
                    !.category_id = CategoryToId(category_to_id, category_str),
                    !.date = date_obj,
                    !.description = description,
                    !.payment_method = IF payment_method # ""
                                       THEN payment_method ELSE NoneStr,
                    !.recurring = recurring,
                    !.recurring_period = IF recurring THEN period ELSE NoneStr,
                    !.recurring_end_date = IF recurring THEN end_date
                                           ELSE NoDate,
                    !.tags = ParseTags(tags_str),
                    !.is_income = (type_str = "income")]
      \* no category_to_id attribute yet: AttributeError in the callback
      rejected == ~a.ok \/ category_str = "" \/ category_to_id = "unset"
  IN /\ expense \in store
     /\ edits < MaxEdits
     /\ ~rejected
     /\ store' = Save(store, updated)
     /\ last' = UiOp("update", expense.user_id)
     /\ edits' = edits + 1
     /\ UNCHANGED <<today, nextId, calls, category_to_id, anVars, categories>>

\* ExpensesFrame._confirm_delete_expense, confirmed
DeleteExpense(expense) ==
  /\ expense \in store
  /\ edits < MaxEdits
  /\ store' = store \ {expense}
  /\ last' = UiOp("delete", expense.user_id)
  /\ edits' = edits + 1
  /\ UNCHANGED <<today, nextId, calls, category_to_id, anVars, categories>>

\* ---------------------------------------------------------------- CSV import
MaxRows == 2

\* A Date cell: three numbers around a separator, or text that is no date
CsvDates == {[sep |-> "/", f |-> <<15, 1, 2024>>],
             [sep |-> "?", f |-> <<0, 0, 0>>]}
FourDigits(n) == n >= 1000 /\ n <= 9999
\* lines 334-353: the formats are tried in order, today is the fallback
ParseCsvDate(c, now) ==
  LET a == c.f[1]
      b == c.f[2]
      d == c.f[3]
  IN IF c.sep = "-" /\ FourDigits(a) /\ ValidDate(<<a, b, d>>)
     THEN <<a, b, d>>                                     \* %Y-%m-%d
     ELSE IF c.sep = "/" /\ FourDigits(d) /\ ValidDate(<<d, a, b>>)
     THEN <<d, a, b>>                                     \* %m/%d/%Y
     ELSE IF c.sep = "/" /\ FourDigits(d) /\ ValidDate(<<d, b, a>>)
     THEN <<d, b, a>>                                     \* %d/%m/%Y
     ELSE IF c.sep = "-" /\ FourDigits(d) /\ ValidDate(<<d, b, a>>)
     THEN <<d, b, a>>                                     \* %d-%m-%Y
     ELSE now

\* line 358: currency symbols and commas removed
CsvAmountStrs == {"-$10", "0", "nan", "abc", "10"}
CleanAmount(amount_str) ==
  CASE amount_str = "-$10" -> "-10"
    [] amount_str = "$20" -> "20"
    [] OTHER -> amount_str

\* lines 356-364: ok = FALSE is the ValueError that fails the row
CsvAmount(amount_str) ==
  LET p == ParseFloat(CleanAmount(amount_str))
  IN [ok |-> p.ok, is_income |-> FGt0(p.val), amount |-> FAbs(p.val)]

Lower(name) ==
  CASE name = "Food" -> "food"
    [] name = "Misc" -> "misc"
    [] OTHER -> name

\* a category map is a dict in insertion order: <<name, id>> pairs
MapHas(m, name) == \E i \in 1..Len(m) : m[i][1] = name
MapGet(m, name) == m[CHOOSE i \in 1..Len(m) : m[i][1] = name][2]
\* lines 312-315: the categories the user has on disk, by lower-cased name
UserCategoryMap(user_id) ==
  IF user_id = "u1"
  THEN <<<<"food", "c1">>, <<"income", "c2">>, <<"groceries", "c3">>>>
  ELSE <<>>
CategoryMaps == {<<>>, <<<<"salary", "c2">>, <<"other", "c1">>>>}
CsvCategories == {"Food", "Misc"}

\* lines 366-381: ok = FALSE is "No category found"
CsvCategory(category_map, category_name) ==
  LET IsDefault(pr) == pr[1] \in {"other", "miscellaneous", "general"}
      default_categories == SelectSeq(category_map, IsDefault)
  IN IF MapHas(category_map, Lower(category_name))
     THEN [ok |-> TRUE, id |-> MapGet(category_map, Lower(category_name))]
     ELSE IF default_categories # <<>>
     THEN [ok |-> TRUE, id |-> default_categories[1][2]]
     ELSE IF category_map # <<>>
     THEN [ok |-> TRUE, id |-> category_map[1][2]]
     ELSE [ok |-> FALSE, id |-> NoneStr]

CsvRows ==
  [Date : CsvDates, Amount : CsvAmountStrs, Category : CsvCategories,
   Description : Descriptions]

\* lines 325-398, from row i on: r.st is the store, r.ok and r.err count
\* the rows imported and failed
RECURSIVE ImportRows(_, _, _, _, _, _)
ImportRows(rows, i, user_id, category_map, now, r) ==
  IF i > Len(rows) THEN r
  ELSE
    LET row == rows[i]
        date == ParseCsvDate(row.Date, now)
        a == CsvAmount(row.Amount)
        c == CsvCategory(category_map, row.Category)
        expense == Expense(a.amount, c.id, date, row.Description,
                           r.nid, user_id, NoneStr, FALSE, NoneStr, NoDate,
                           <<>>, a.is_income, now)
    IN IF a.ok /\ c.ok
       THEN ImportRows(rows, i + 1, user_id, category_map, now,
                       [st |-> Save(r.st, expense), nid |-> r.nid + 1,
                        ok |-> r.ok + 1, err |-> r.err])
       ELSE ImportRows(rows, i + 1, user_id, category_map, now,
                       [r EXCEPT !.err = r.err + 1])

\* Expense.import_from_csv on a readable file with the given rows
ImportFromCsv(rows, user_id, map_arg) ==
  LET category_map == IF map_arg = <<>> THEN UserCategoryMap(user_id)
                      ELSE map_arg
      r == ImportRows(rows, 1, user_id, category_map, today,
                      [st |-> store, nid |-> nextId, ok |-> 0, err |-> 0])
  IN /\ nextId + Len(rows) - 1 <= MaxStore
     /\ store' = r.st
     /\ nextId' = r.nid
     /\ last' = UiOp("import", user_id)
     /\ UNCHANGED <<today, calls, category_to_id, edits, anVars, categories>>

RowSeqs == UNION {[1..n -> CsvRows] : n \in 1..MaxRows}

\* ------------------------------------------------------------ the program
Init ==
  /\ categories = {}
  /\ store = {}
  /\ today \in Todays
  /\ nextId = 1
  /\ calls = 0
  /\ last = NoOp
  /\ category_to_id = "unset"
  /\ edits = 0
  /\ expenses = <<>>
  /\ categories_dict = <<>>
  /\ result = NoResult

Next ==
  \/ \E u \in {"u1", NoneStr}, t \in TypeStrs, a \in AmountStrs,
        d \in EntryDates, c \in CategoryStrs, ds \in Descriptions,
        pm \in PaymentStrs, rc \in BOOLEAN, pd \in UiPeriods,
        ed \in EndDates, tg \in TagStrs :
       SaveNewExpense(u, t, a, d, c, ds, pm, rc, pd, ed, tg)
  \/ \E e \in store, t \in TypeStrs, a \in AmountStrs,
        d \in EntryDates, c \in CategoryStrs, ds \in Descriptions,
        pm \in PaymentStrs, rc \in BOOLEAN, pd \in UiPeriods,
        ed \in EndDates, tg \in TagStrs :
       UpdateExpense(e, t, a, d, c, ds, pm, rc, pd, ed, tg)
  \/ \E e \in store : DeleteExpense(e)
  \/ \E rows \in RowSeqs, u \in Users, m \in CategoryMaps :
       ImportFromCsv(rows, u, m)
  \/ \E u \in Users : GenerateRecurring(u)

Spec == Init /\ [][Next]_vars

\* C5: every stored transaction has amount >= 0; income or expense is told
\* by is_income alone.
C5_AmountNonNegative == \A e \in store : FGe0(e.amount)

\* ============================================================ utils/analysis
\* A Category object, as far as the analysis reads it; categories_dict is
\* the set of its values (the keys are their category_id)
Category(category_id, name, parent_id) ==
  [category_id |-> category_id, name |-> name, parent_id |-> parent_id]
InDict(dict, id) == \E c \in dict : c.category_id = id
DictGet(dict, id) == CHOOSE c \in dict : c.category_id = id

\* date.weekday(): Monday is 0
DaysBeforeMonth(y, m) ==
  LET cum == <<0, 31, 59, 90, 120, 151, 181, 212, 243, 273, 304, 334>>
  IN cum[m] + (IF m > 2 /\ IsLeap(y) THEN 1 ELSE 0)
ToOrdinal(dt) ==
  LET y == dt[1] - 1
  IN y * 365 + (y \div 4) - (y \div 100) + (y \div 400)
     + DaysBeforeMonth(dt[1], dt[2]) + dt[3]
Weekday(dt) == (ToOrdinal(dt) + 6) % 7
DayNames ==
  <<"Monday", "Tuesday", "Wednesday", "Thursday", "Friday", "Saturday",
    "Sunday">>

\* --------------------------------------------------------- ISO week numbers
\* the number of ISO weeks of a year
WeeksInYear(y) ==
  LET jan1 == Weekday(<<y, 1, 1>>)
  IN IF jan1 = 3 \/ (jan1 = 2 /\ IsLeap(y)) THEN 53 ELSE 52
\* date.isocalendar()[1]
IsoWeek(dt) ==
  LET doy == DaysBeforeMonth(dt[1], dt[2]) + dt[3]
      w == (doy - (Weekday(dt) + 1) + 10) \div 7
  IN IF w < 1 THEN WeeksInYear(dt[1] - 1)
     ELSE IF w > WeeksInYear(dt[1]) THEN 1
     ELSE w
PrevDay(dt) ==
  IF dt[3] > 1 THEN <<dt[1], dt[2], dt[3] - 1>>
  ELSE IF dt[2] > 1 THEN <<dt[1], dt[2] - 1, DaysInMonth(dt[1], dt[2] - 1)>>
  ELSE <<dt[1] - 1, 12, 31>>
RECURSIVE SubDays(_, _)
SubDays(dt, n) == IF n = 0 THEN dt ELSE SubDays(PrevDay(dt), n - 1)

\* lines 27-70: the dataframe row of one expense
DataframeRow(expense, dict, now) ==
  LET known == dict # {} /\ InDict(dict, expense.category_id)
      category == DictGet(dict, expense.category_id)
      category_name == IF known THEN category.name ELSE "Unknown"
      parent_category ==
        IF ~known THEN "Unknown"
        ELSE IF category.parent_id # NoneStr
                /\ InDict(dict, category.parent_id)
        THEN DictGet(dict, category.parent_id).name
        ELSE IF category.parent_id = NoneStr THEN category_name
        ELSE "Unknown"
      amount == IF ~expense.is_income THEN FNeg(expense.amount)
                ELSE expense.amount
      date_obj == IF ValidDate(expense.date) THEN expense.date ELSE now
  IN [expense_id |-> expense.expense_id,
      date |-> date_obj,
      amount |-> amount,
      category_id |-> expense.category_id,
      category |-> category_name,
      parent_category |-> parent_category,
      description |-> expense.description,
      payment_method |-> expense.payment_method,
      tags |-> expense.tags,
      is_income |-> expense.is_income,
      year |-> date_obj[1],
      month |-> date_obj[2],
      day |-> date_obj[3],
      weekday |-> Weekday(date_obj),
      week |-> IsoWeek(date_obj)]

\* expenses_to_dataframe: the rows in list order; <<>> is the empty frame
expenses_to_dataframe(exps, dict, now) ==
  [i \in 1..Len(exps) |-> DataframeRow(exps[i], dict, now)]

\* the Expense objects after expenses_to_dataframe has read them: the loop
\* assigns to locals only
\* a conversion that would write the signed amount back into the objects
ExpensesAfterFlip(exps) ==
  [i \in 1..Len(exps) |->
     IF exps[i].is_income THEN exps[i]
     ELSE [exps[i] EXCEPT !.amount = FNeg(@)]]
\* lines 27-70 assign to locals only: the objects are left as they were
ExpensesAfter(exps) == exps

\* Series.sum(): NaN values are skipped
RECURSIVE SumAmounts(_, _)
SumAmounts(rows, i) ==
  IF i > Len(rows) THEN 0
  ELSE (IF FIsNaN(rows[i].amount) THEN 0 ELSE rows[i].amount.v)
       + SumAmounts(rows, i + 1)
Sum(rows) == Num(SumAmounts(rows, 1))
\* count(): the values that are not NaN
IsNumRow(r) == ~FIsNaN(r.amount)
Count(rows) == Len(SelectSeq(rows, IsNumRow))
\* mean(): a fraction in lowest terms, NaN when nothing is counted
RECURSIVE Gcd(_, _)
Gcd(a, b) == IF b = 0 THEN a ELSE Gcd(b, a % b)
Abs(n) == IF n < 0 THEN -n ELSE n
\* an exact rational n/d in lowest terms with d > 0; float('inf') and NaN
Frac(n, d) ==
  LET g == Gcd(Abs(n), Abs(d))
      sg == IF d < 0 THEN -1 ELSE 1
  IN [k |-> "num", n |-> (sg * n) \div g, d |-> (sg * d) \div g]
QInf == [k |-> "inf", n |-> 1, d |-> 0]
QNaN == [k |-> "nan", n |-> 0, d |-> 1]
Q(n) == Frac(n, 1)
QAdd(a, b) == Frac(a.n * b.d + b.n * a.d, a.d * b.d)
QSub(a, b) == Frac(a.n * b.d - b.n * a.d, a.d * b.d)
QMul(a, b) == Frac(a.n * b.n, a.d * b.d)
QDiv(a, b) == Frac(a.n * b.d, a.d * b.n)
QLt(a, b) == a.n * b.d < b.n * a.d
QAbs(a) == Frac(Abs(a.n), a.d)
Mean(rows) ==
  IF Count(rows) = 0 THEN QNaN
  ELSE Frac(SumAmounts(rows, 1), Count(rows))

IsPositive(r) == FGt0(r.amount)
\* a filter that keeps the income rows too
AnyRow(r) == TRUE
\* lines 104 and 443: amount < 0
IsNegative(r) == FLt0(r.amount)
\* lines 103-104
TotalIncome(df) == Sum(SelectSeq(df, IsPositive))
\* line 104 without abs()
TotalExpensesSigned(df) == Sum(SelectSeq(df, IsNegative))
\* line 104
TotalExpenses(df) == FAbs(Sum(SelectSeq(df, IsNegative)))
\* line 105
\* a net that adds the two totals
NetPlus(total_income, total_expenses) == FAdd(total_income, total_expenses)
\* line 105, as written
Net(total_income, total_expenses) == FSub(total_income, total_expenses)

InCategory(df, category) ==
  LET Test(r) == r.category = category IN SelectSeq(df, Test)
\* a grouping by the hierarchical root (column parent_category)
ByParentCategory(df) ==
  {[category |-> c,
    amount |-> Sum(LET T(r) == r.parent_category = c IN SelectSeq(df, T)),
    count |-> Len(LET T(r) == r.parent_category = c IN SelectSeq(df, T))] :
     c \in {df[i].parent_category : i \in 1..Len(df)}}
\* lines 107-117
ByCategory(df) ==
  {[category |-> c, amount |-> Sum(InCategory(df, c)),
    count |-> Len(InCategory(df, c))] :
     c \in {df[i].category : i \in 1..Len(df)}}

MonthYear(r) == <<r.date[1], r.date[2]>>
InMonth(df, my) == LET Test(r) == MonthYear(r) = my IN SelectSeq(df, Test)
\* lines 119-125
ByMonth(df) ==
  {[month_year |-> my, total |-> Sum(InMonth(df, my)),
    average |-> Mean(InMonth(df, my)), count |-> Count(InMonth(df, my))] :
     my \in {MonthYear(df[i]) : i \in 1..Len(df)}}

OnWeekday(df, w) == LET Test(r) == r.weekday = w IN SelectSeq(df, Test)
\* lines 127-150
ByDay(df, now) ==
  LET current_month_data == InMonth(df, <<now[1], now[2]>>)
  IN {[weekday_name |-> DayNames[w + 1],
       total |-> Sum(OnWeekday(current_month_data, w)),
       average |-> Mean(OnWeekday(current_month_data, w)),
       count |-> Count(OnWeekday(current_month_data, w))] :
        w \in {current_month_data[i].weekday :
                 i \in 1..Len(current_month_data)}}

\* df.empty
\* a function without the df.empty guard
EmptyNever(df) == FALSE
\* lines 93, 177, 260, 434: df.empty
Empty(df) == df = <<>>
\* an exception leaves the function: the frame of an empty list has no
\* columns, so df['amount'] is a KeyError
Raised(what) == [raised |-> what]
\* the exception a call on this input ends with, "none" when it returns:
\* without the df.empty guard the first column access fails on a DataFrame
\* that has no columns
Raises(exps, dict, now) ==
  LET df == expenses_to_dataframe(exps, dict, now)
  IN IF ~Empty(df) /\ df = <<>> THEN "KeyError" ELSE "none"

\* get_monthly_summary(expenses, categories_dict)
get_monthly_summary(exps, dict, now) ==
  LET df == expenses_to_dataframe(exps, dict, now)
      total_income == TotalIncome(df)
      total_expenses == TotalExpenses(df)
  IN IF Empty(df)
     THEN [total_income |-> Num(0), total_expenses |-> Num(0), net |-> Num(0),
           by_category |-> {}, by_month |-> {}, by_day |-> {}]
     ELSE IF df = <<>> THEN Raised("KeyError")
     ELSE [total_income |-> total_income,
           total_expenses |-> total_expenses,
           net |-> Net(total_income, total_expenses),
           by_category |-> ByCategory(df),
           by_month |-> ByMonth(df),
           by_day |-> ByDay(df, now)]

\* a caller computes the summary
CallMonthlySummary ==
  /\ calls < MaxCalls
  /\ calls' = calls + 1
  /\ result' = [fn |-> "get_monthly_summary", now |-> today,
                raised |-> Raises(expenses, categories_dict, today),
                value |-> get_monthly_summary(expenses, categories_dict,
                                              today)]
  /\ expenses' = ExpensesAfter(expenses)
  /\ UNCHANGED <<categories_dict, today, store, nextId, last,
                 category_to_id, edits, categories>>

\* ------------------------------------------------------ compare_time_periods
\* A period string is the tuple of its numbers: <<y, m, d>> for a day,
\* <<y, w>> for "YYYY-Www", <<y, m>> for a month, <<y>> for a year; None is
\* <<>>.
\* lines 273-346: the labels and the rows of the two periods
Periods2(df, period_type, current_arg, previous_arg, now) ==
  CASE period_type = "day" ->
         LET cur == IF current_arg = <<>> THEN now ELSE current_arg
             prev == IF previous_arg = <<>> THEN PrevDay(now)
                     ELSE previous_arg
             IsCur(r) == r.date = cur
             IsPrev(r) == r.date = prev
         IN [name |-> "day", current |-> cur, previous |-> prev,
             current_df |-> SelectSeq(df, IsCur),
             previous_df |-> SelectSeq(df, IsPrev)]
    [] period_type = "week" ->
         LET cur == IF current_arg = <<>> THEN <<now[1], IsoWeek(now)>>
                    ELSE current_arg
             prev_date == SubDays(now, 7)
             prev == IF previous_arg = <<>>
                     THEN <<prev_date[1], IsoWeek(prev_date)>>
                     ELSE previous_arg
             IsCur(r) == r.year = cur[1] /\ r.week = cur[2]
             IsPrev(r) == r.year = prev[1] /\ r.week = prev[2]
         IN [name |-> "week", current |-> cur, previous |-> prev,
             current_df |-> SelectSeq(df, IsCur),
             previous_df |-> SelectSeq(df, IsPrev)]
    [] period_type = "year" ->
         LET cur == IF current_arg = <<>> THEN <<now[1]>> ELSE current_arg
             prev == IF previous_arg = <<>> THEN <<cur[1] - 1>>
                     ELSE previous_arg
             IsCur(r) == r.year = cur[1]
             IsPrev(r) == r.year = prev[1]
         IN [name |-> "year", current |-> cur, previous |-> prev,
             current_df |-> SelectSeq(df, IsCur),
             previous_df |-> SelectSeq(df, IsPrev)]
    [] OTHER ->
         LET cur == IF current_arg = <<>> THEN <<now[1], now[2]>>
                    ELSE current_arg
             prev == IF previous_arg # <<>> THEN previous_arg
                     ELSE IF now[2] = 1 THEN <<now[1] - 1, 12>>
                     ELSE <<now[1], now[2] - 1>>
             IsCur(r) == MonthYear(r) = cur
             IsPrev(r) == MonthYear(r) = prev
         IN [name |-> "month", current |-> cur, previous |-> prev,
             current_df |-> SelectSeq(df, IsCur),
             previous_df |-> SelectSeq(df, IsPrev)]

\* a percentage that is 0 where there is no baseline
PercentZero(change, previous) ==
  IF previous # 0 THEN Frac(change * 100, Abs(previous)) ELSE Q(0)
\* a percentage over the signed previous value
PercentSigned(change, previous) ==
  IF previous # 0 THEN Frac(change * 100, previous) ELSE QInf
\* lines 363-365 and 380: change / |previous| * 100, or float('inf')
Percent(change, previous) ==
  IF previous # 0 THEN Frac(change * 100, Abs(previous)) ELSE QInf

\* lines 368-369
CategorySums(pdf) ==
  {[category |-> c, amount |-> SumAmounts(InCategory(pdf, c), 1)] :
     c \in {pdf[i].category : i \in 1..Len(pdf)}}
SumOf(sums, c) ==
  IF \E x \in sums : x.category = c
  THEN (CHOOSE x \in sums : x.category = c).amount
  ELSE 0

\* the categories of the current period only
CurrentCategories(current_by_category, previous_by_category) ==
  {x.category : x \in current_by_category}
\* line 372: the keys of both dictionaries
AllCategories(current_by_category, previous_by_category) ==
  {x.category : x \in current_by_category}
  \cup {x.category : x \in previous_by_category}

\* compare_time_periods(expenses, categories_dict, period_type,
\*                      current_period, previous_period)
compare_time_periods(exps, dict, period_type, current_arg, previous_arg, now) ==
  LET df == expenses_to_dataframe(exps, dict, now)
      p == Periods2(df, period_type, current_arg, previous_arg, now)
      current_income == TotalIncome(p.current_df).v
      current_expenses == TotalExpenses(p.current_df).v
      current_net == current_income - current_expenses
      previous_income == TotalIncome(p.previous_df).v
      previous_expenses == TotalExpenses(p.previous_df).v
      previous_net == previous_income - previous_expenses
      current_by_category == CategorySums(p.current_df)
      previous_by_category == CategorySums(p.previous_df)
      all_categories == AllCategories(current_by_category,
                                      previous_by_category)
  IN IF Empty(df)
     THEN [current_period |-> <<>>, previous_period |-> <<>>,
           change |-> <<>>, percent_change |-> <<>>]
     ELSE IF df = <<>> THEN Raised("KeyError")
     ELSE
       [period_type |-> p.name,
        current_period |->
          [label |-> p.current, income |-> current_income,
           expenses |-> current_expenses, net |-> current_net,
           by_category |-> current_by_category],
        previous_period |->
          [label |-> p.previous, income |-> previous_income,
           expenses |-> previous_expenses, net |-> previous_net,
           by_category |-> previous_by_category],
        change |->
          [income |-> current_income - previous_income,
           expenses |-> current_expenses - previous_expenses,
           net |-> current_net - previous_net],
        percent_change |->
          [income |-> Percent(current_income - previous_income,
                              previous_income),
           expenses |-> Percent(current_expenses - previous_expenses,
                                previous_expenses),
           net |-> Percent(current_net - previous_net, previous_net)],
        categories |->
          {[category |-> c,
            current |-> SumOf(current_by_category, c),
            previous |-> SumOf(previous_by_category, c),
            change |-> SumOf(current_by_category, c)
                       - SumOf(previous_by_category, c),
            percent_change |->
              Percent(SumOf(current_by_category, c)
                      - SumOf(previous_by_category, c),
                      SumOf(previous_by_category, c))] :
             c \in all_categories}]

\* ------------------------------------------------- detect_spending_anomalies
RECURSIVE SeqSum(_, _)
SeqSum(xs, i) == IF i > Len(xs) THEN 0 ELSE xs[i] + SeqSum(xs, i + 1)
RECURSIVE SeqSumSq(_, _)
SeqSumSq(xs, i) ==
  IF i > Len(xs) THEN 0 ELSE xs[i] * xs[i] + SeqSumSq(xs, i + 1)
\* the values a pandas aggregate sees: NaN dropped
Values(rows) ==
  LET nums == SelectSeq(rows, IsNumRow)
  IN [i \in 1..Len(nums) |-> nums[i].amount.v]
\* mean() of numbers
MeanOf(xs) == Frac(SeqSum(xs, 1), Len(xs))
\* std() squared: the sample variance (ddof = 1), for two values or more
VarOf(xs) ==
  Frac(Len(xs) * SeqSumSq(xs, 1) - SeqSum(xs, 1) * SeqSum(xs, 1),
       Len(xs) * (Len(xs) - 1))
\* a threshold that never looks at the standard deviation
\* the factor left out of the std term
ThresholdOneStd(xs, threshold_factor) ==
  IF Len(xs) < 2 \/ VarOf(xs).n = 0
  THEN [base |-> QMul(QAbs(MeanOf(xs)), threshold_factor), rad |-> Q(0)]
  ELSE [base |-> QAbs(MeanOf(xs)), rad |-> VarOf(xs)]
ThresholdMeanOnly(xs, threshold_factor) ==
  [base |-> QMul(QAbs(MeanOf(xs)), threshold_factor), rad |-> Q(0)]
\* lines 191-195 and 221-225.  A threshold is base + sqrt(rad): with std NaN
\* or 0 it is |mean| * factor, otherwise |mean| + std * factor
Threshold(xs, threshold_factor) ==
  IF Len(xs) < 2 \/ VarOf(xs).n = 0
  THEN [base |-> QMul(QAbs(MeanOf(xs)), threshold_factor), rad |-> Q(0)]
  ELSE [base |-> QAbs(MeanOf(xs)),
        rad |-> QMul(VarOf(xs), QMul(threshold_factor, threshold_factor))]
\* x >= base + sqrt(rad)
ExceedsOrEquals(x, thr) ==
  LET diff == QSub(x, thr.base)
  IN diff.n >= 0 /\ ~QLt(QMul(diff, diff), thr.rad)
\* x > base + sqrt(rad)
Exceeds(x, thr) ==
  LET diff == QSub(x, thr.base)
  IN diff.n > 0 /\ QLt(thr.rad, QMul(diff, diff))

\* lines 184-211: the large transactions of one category
LargeTransactions(df, category, threshold_factor) ==
  LET category_expenses == InCategory(df, category)
      xs == Values(category_expenses)
      thr == Threshold(xs, threshold_factor)
  IN IF xs = <<>> THEN {}
     ELSE {[expense_id |-> r.expense_id, date |-> r.date,
            amount |-> r.amount, category |-> category,
            description |-> r.description,
            anomaly_type |-> "large_transaction",
            threshold |-> thr, average |-> MeanOf(xs)] :
             r \in {category_expenses[i] :
                      i \in {j \in 1..Len(category_expenses) :
                               /\ IsNumRow(category_expenses[j])
                               /\ Exceeds(Q(Abs(category_expenses[j].amount.v)),
                                          thr)}}}

OnDate(df, d) == LET Test(r) == r.date = d IN SelectSeq(df, Test)
\* a set of numbers as a sequence, in some order
RECURSIVE SetToSeq(_)
SetToSeq(S) ==
  IF S = {} THEN <<>>
  ELSE LET x == CHOOSE y \in S : TRUE IN <<x>> \o SetToSeq(S \ {x})
\* lines 213-237: the days with unusually many transactions
HighFrequency(df, threshold_factor) ==
  LET days == {df[i].date : i \in 1..Len(df)}
      dayseq == SetToSeq(days)
      transactions_per_day ==
        [i \in 1..Len(dayseq) |-> Len(OnDate(df, dayseq[i]))]
      thr == Threshold(transactions_per_day, threshold_factor)
  IN {[date |-> d, count |-> Len(OnDate(df, d)),
       anomaly_type |-> "high_frequency", threshold |-> thr,
       average |-> MeanOf(transactions_per_day)] :
        d \in {e \in days : Exceeds(Q(Len(OnDate(df, e))), thr)}}

\* detect_spending_anomalies(expenses, categories_dict, threshold_factor):
\* the anomalies as a set, their order in the list left out
detect_spending_anomalies(exps, dict, threshold_factor, now) ==
  LET df == expenses_to_dataframe(exps, dict, now)
  IN IF Empty(df) THEN {}
     ELSE IF df = <<>> THEN Raised("KeyError")
     ELSE UNION {LargeTransactions(df, c, threshold_factor) :
                   c \in {df[i].category : i \in 1..Len(df)}}
          \cup HighFrequency(df, threshold_factor)

\* -------------------------------------------------- predict_monthly_expenses
RECURSIVE QSeqSum(_, _)
QSeqSum(qs, i) ==
  IF i > Len(qs) THEN Q(0) ELSE QAdd(qs[i], QSeqSum(qs, i + 1))
\* month keys in calendar order
RECURSIVE SortMonths(_)
SortMonths(S) ==
  IF S = {} THEN <<>>
  ELSE LET m == CHOOSE x \in S :
                  \A y \in S : x[1] * 12 + x[2] <= y[1] * 12 + y[2]
       IN <<m>> \o SortMonths(S \ {m})
\* lines 443 and 532: |sum| of the rows of each month, by month
MonthlyTotals(rows) ==
  LET months == SortMonths({MonthYear(rows[i]) : i \in 1..Len(rows)})
  IN [i \in 1..Len(months) |->
        [month_year |-> months[i],
         expenses |-> Abs(SumAmounts(InMonth(rows, months[i]), 1))]]

\* lines 457-497 and 543-562: the line fitted to ys[1..n] at x = 0..n-1.
\* x is a column (n, 1) and y a row (n,), so numpy broadcasts
\* (x - x_mean) * (y - y_mean) and y - y_pred to n-by-n arrays, and np.sum
\* adds up all n * n entries.
Regression(ys) ==
  LET n == Len(ys)
      x_mean == Frac(n - 1, 2)
      y_mean == Frac(SeqSum(ys, 1), n)
      dx == [i \in 1..n |-> QSub(Q(i - 1), x_mean)]
      dy == [j \in 1..n |-> QSub(Q(ys[j]), y_mean)]
      Row(k) == ((k - 1) \div n) + 1
      Col(k) == ((k - 1) % n) + 1
      numerator ==
        QSeqSum([k \in 1..(n * n) |-> QMul(dx[Row(k)], dy[Col(k)])], 1)
      denominator == QSeqSum([i \in 1..n |-> QMul(dx[i], dx[i])], 1)
      slope == IF denominator.n = 0 THEN Q(0)
               ELSE QDiv(numerator, denominator)
      intercept == IF denominator.n = 0 THEN y_mean
                   ELSE QSub(y_mean, QMul(slope, x_mean))
      y_pred == [i \in 1..n |-> QAdd(intercept, QMul(slope, Q(i - 1)))]
      ss_total == QSeqSum([j \in 1..n |-> QMul(dy[j], dy[j])], 1)
      ss_residual ==
        QSeqSum([k \in 1..(n * n) |->
                   LET e == QSub(Q(ys[Col(k)]), y_pred[Row(k)])
                   IN QMul(e, e)], 1)
      r_squared == IF ss_total.n = 0 THEN Q(0)
                   ELSE QSub(Q(1), QDiv(ss_residual, ss_total))
  IN [slope |-> slope, intercept |-> intercept, r_squared |-> r_squared,
      last_index |-> n - 1]

\* the month number counted on past 12, within the same year
MonthAfterNoRoll(last_my, i) == <<last_my[1], last_my[2] + i>>
\* lines 506-516 and 566-574: the i-th month after last
MonthAfter(last_my, i) ==
  <<last_my[1] + ((last_my[2] + i - 1) \div 12),
    ((last_my[2] + i - 1) % 12) + 1>>
\* the value with its sign turned
Negated(predicted_expense) == QSub(Q(0), predicted_expense)
\* lines 523 and 579: max(0, predicted_expense)
AtLeastZero(predicted_expense) ==
  IF predicted_expense.n < 0 THEN Q(0) ELSE predicted_expense
\* lines 506-525 and 566-581
Predictions(reg, last_my, months_to_predict) ==
  {[month_year |-> MonthAfter(last_my, i),
    value |-> AtLeastZero(QAdd(reg.intercept,
                               QMul(reg.slope, Q(reg.last_index + i))))] :
     i \in 1..months_to_predict}

Amounts(monthly) == [i \in 1..Len(monthly) |-> monthly[i].expenses]
\* every category that has spending
SpendingCategories(spending) ==
  {spending[i].category : i \in 1..Len(spending)}
\* lines 532-536: the categories with 3 monthly totals or more
ValidCategories(spending) ==
  {c \in {spending[i].category : i \in 1..Len(spending)} :
     Len(MonthlyTotals(InCategory(spending, c))) >= 3}

\* predict_monthly_expenses(expenses, categories_dict, months_to_predict)
predict_monthly_expenses(exps, dict, months_to_predict, now) ==
  LET df == expenses_to_dataframe(exps, dict, now)
      spending == SelectSeq(df, IsNegative)
      monthly_df == MonthlyTotals(spending)
      reg == Regression(Amounts(monthly_df))
      last_my == monthly_df[Len(monthly_df)].month_year
      valid_categories == ValidCategories(spending)
  IN IF Empty(df)
     THEN [predictions |-> {}, confidence |-> "low",
           message |-> "Not enough data for prediction"]
     ELSE IF df = <<>> THEN Raised("KeyError")
     ELSE IF Len(monthly_df) < 3
     THEN [predictions |-> {}, confidence |-> "low",
           message |-> "Need at least 3 months of data for prediction"]
     ELSE
       [predictions |-> Predictions(reg, last_my, months_to_predict),
        by_category |->
          {[category |-> c,
            predictions |->
              Predictions(Regression(Amounts(
                            MonthlyTotals(InCategory(spending, c)))),
                          last_my, months_to_predict)] :
             c \in valid_categories},
        confidence |->
          IF QLt(Frac(7, 10), reg.r_squared) THEN "high"
          ELSE IF QLt(reg.r_squared, Frac(3, 10)) THEN "low"
          ELSE "medium",
        r_squared |-> reg.r_squared,
        trend |-> IF reg.slope.n > 0 THEN "increasing"
                  ELSE IF reg.slope.n = 0 THEN "stable" ELSE "decreasing",
        months_analyzed |-> Len(monthly_df)]

\* -------------------------------------------------- Category.get_full_path
\* None and the empty string are false in a condition
Falsy(x) == x = NoneStr \/ x = ""
\* the path as built, own name first
LeafFirst(path) == path
\* line 344: path.reverse()
RECURSIVE RootFirst(_)
RootFirst(path) ==
  IF path = <<>> THEN <<>>
  ELSE Append(RootFirst(Tail(path)), Head(path))
\* line 345: " > ".join(path)
RECURSIVE Join(_)
Join(path) ==
  IF Len(path) = 1 THEN path[1]
  ELSE path[1] \o " > " \o Join(Tail(path))
\* lines 332-341: the walk up the hierarchy, from current_cat on
RECURSIVE WalkUp(_, _, _)
WalkUp(current_cat, dict, path) ==
  IF Falsy(current_cat.parent_id) THEN path
  ELSE IF InDict(dict, current_cat.parent_id)
  THEN WalkUp(DictGet(dict, current_cat.parent_id), dict,
              Append(path, DictGet(dict, current_cat.parent_id).name))
  ELSE path
\* Category.get_full_path(self, categories_dict)
get_full_path(self, dict) ==
  IF Falsy(self.parent_id) THEN self.name
  ELSE Join(RootFirst(WalkUp(self, dict, <<self.name>>)))
CallGetFullPath(self) ==
  /\ result' = [fn |-> "get_full_path", now |-> today, raised |-> "none",
                value |-> get_full_path(self, categories_dict),
                args |-> [self |-> self]]
  /\ UNCHANGED <<expenses, categories_dict, today, storeVars, categories>>

\* callers of the other analysis functions
PeriodTypes == {"day", "week", "month", "year"}
PeriodArgs(period_type) ==
  {<<>>} \cup
  ( CASE period_type = "day" -> {<<2024, 2, 10>>}
      [] period_type = "week" -> {<<2024, 6>>}
      [] period_type = "year" -> {<<2024>>}
      [] OTHER -> {<<2024, 2>>} )
CallComparePeriods(period_type, current_period, previous_period) ==
  /\ result' = [fn |-> "compare_time_periods", now |-> today,
                raised |-> Raises(expenses, categories_dict, today),
                value |-> compare_time_periods(expenses, categories_dict,
                                               period_type, current_period,
                                               previous_period, today),
                args |-> [period_type |-> period_type,
                          current_period |-> current_period,
                          previous_period |-> previous_period]]
  /\ expenses' = ExpensesAfter(expenses)
  /\ UNCHANGED <<categories_dict, today, storeVars, categories>>
CallDetectAnomalies(threshold_factor) ==
  /\ result' = [fn |-> "detect_spending_anomalies", now |-> today,
                raised |-> Raises(expenses, categories_dict, today),
                value |-> detect_spending_anomalies(expenses,
                                                    categories_dict,
                                                    threshold_factor, today),
                args |-> [threshold_factor |-> threshold_factor]]
  /\ expenses' = ExpensesAfter(expenses)
  /\ UNCHANGED <<categories_dict, today, storeVars, categories>>
CallPredict(months_to_predict) ==
  /\ result' = [fn |-> "predict_monthly_expenses", now |-> today,
                raised |-> Raises(expenses, categories_dict, today),
                value |-> predict_monthly_expenses(expenses, categories_dict,
                                                   months_to_predict, today),
                args |-> [months_to_predict |-> months_to_predict]]
  /\ expenses' = ExpensesAfter(expenses)
  /\ UNCHANGED <<categories_dict, today, storeVars, categories>>

\* ------------------------------------------- inputs of the analysis calls
MaxExp == 2
\* finite amounts, as validated entry stores them, and a negative one
AnAmounts == {Num(10), Num(-30)}
\* a date and a string that strptime rejects (day 30 of February)
AnDates == {<<2024, 2, 10>>, <<2024, 2, 30>>}
AnCategoryIds == {"c1", "c3", "c7"}
AnExpenses ==
  {Expense(a, c, d, "x", 0, "u1", NoneStr, FALSE, NoneStr, NoDate, <<>>,
           inc, d) :
     a \in AnAmounts, c \in AnCategoryIds, d \in AnDates, inc \in BOOLEAN}
\* a main category with a subcategory; no lookup; a subcategory that bears
\* its parent's name
AnDicts ==
  {{Category("c1", "Food", NoneStr), Category("c3", "Groceries", "c1")},
   {},
   {Category("c1", "Food", NoneStr), Category("c3", "Food", "c1")}}
AnLists ==
  UNION {{[i \in 1..n |-> [f[i] EXCEPT !.expense_id = i]] :
            f \in [1..n -> AnExpenses]} : n \in 0..MaxExp}

InitAn ==
  /\ categories = {}
  /\ expenses \in AnLists
  /\ categories_dict \in AnDicts
  /\ result = NoResult
  /\ today \in Todays
  /\ store = {}
  /\ nextId = 1
  /\ calls = 0
  /\ last = NoOp
  /\ category_to_id = "unset"
  /\ edits = 0

NextAn == CallMonthlySummary \/ Tick
SpecAn == InitAn /\ [][NextAn]_vars

\* short histories for the four analysis functions together: selections, in
\* order, from three months of spending in two categories and one income
MaxAll == 3
ThresholdFactors == {Q(2), Q(1)}
MonthsToPredict == {0, 3}
History ==
  <<Expense(Num(10), "c1", <<2024, 1, 10>>, "x", 1, "u1", NoneStr, FALSE,
            NoneStr, NoDate, <<>>, FALSE, <<2024, 1, 10>>),
    Expense(Num(10), "c1", <<2024, 2, 10>>, "x", 2, "u1", NoneStr, FALSE,
            NoneStr, NoDate, <<>>, FALSE, <<2024, 2, 10>>),
    Expense(Num(20), "c1", <<2024, 2, 10>>, "x", 3, "u1", NoneStr, FALSE,
            NoneStr, NoDate, <<>>, TRUE, <<2024, 2, 10>>),
    Expense(Num(50), "c3", <<2024, 3, 1>>, "x", 4, "u1", NoneStr, FALSE,
            NoneStr, NoDate, <<>>, FALSE, <<2024, 3, 1>>),
    Expense(Num(10), "c1", <<2024, 3, 1>>, "x", 5, "u1", NoneStr, FALSE,
            NoneStr, NoDate, <<>>, FALSE, <<2024, 3, 1>>)>>
RECURSIVE Selection(_, _)
Selection(S, i) ==
  IF i > Len(History) THEN <<>>
  ELSE (IF i \in S THEN <<History[i]>> ELSE <<>>) \o Selection(S, i + 1)
AllLists ==
  {Selection(S, 1) :
     S \in {T \in SUBSET (1..Len(History)) : Cardinality(T) <= MaxAll}}

InitAll ==
  /\ categories = {}
  /\ expenses \in AllLists
  /\ categories_dict \in AnDicts
  /\ result = NoResult
  /\ today \in Todays
  /\ store = {}
  /\ nextId = 1
  /\ calls = 0
  /\ last = NoOp
  /\ category_to_id = "unset"
  /\ edits = 0

NextAll ==
  \/ CallMonthlySummary
  \/ \E t \in PeriodTypes : \E c, p \in PeriodArgs(t) :
       CallComparePeriods(t, c, p)
  \/ \E f \in ThresholdFactors : CallDetectAnomalies(f)
  \/ \E m \in MonthsToPredict : CallPredict(m)
  \/ Tick
SpecAll == InitAll /\ [][NextAll]_vars

\* histories for the period comparison: two months of spending and income in
\* two categories, a day and its eve, and the days around a year's end whose
\* ISO year is not their calendar year
MaxCmp == 3
CmpTodays == {<<2024, 2, 10>>, <<2024, 3, 5>>, <<2024, 12, 30>>}
CmpHistory ==
  <<Expense(Num(200), "c1", <<2024, 2, 10>>, "x", 1, "u1", NoneStr, FALSE,
            NoneStr, NoDate, <<>>, FALSE, <<2024, 2, 10>>),
    Expense(Num(100), "c1", <<2024, 1, 10>>, "x", 2, "u1", NoneStr, FALSE,
            NoneStr, NoDate, <<>>, FALSE, <<2024, 1, 10>>),
    Expense(Num(20), "c3", <<2024, 1, 10>>, "x", 3, "u1", NoneStr, FALSE,
            NoneStr, NoDate, <<>>, TRUE, <<2024, 1, 10>>),
    Expense(Num(30), "c1", <<2024, 2, 9>>, "x", 4, "u1", NoneStr, FALSE,
            NoneStr, NoDate, <<>>, TRUE, <<2024, 2, 9>>),
    Expense(Num(50), "c3", <<2024, 12, 30>>, "x", 5, "u1", NoneStr, FALSE,
            NoneStr, NoDate, <<>>, FALSE, <<2024, 12, 30>>),
    Expense(Num(10), "c1", <<2024, 1, 3>>, "x", 6, "u1", NoneStr, FALSE,
            NoneStr, NoDate, <<>>, FALSE, <<2024, 1, 3>>),
    Expense(Num(40), "c7", <<2023, 12, 27>>, "x", 7, "u1", NoneStr, FALSE,
            NoneStr, NoDate, <<>>, FALSE, <<2023, 12, 27>>)>>
RECURSIVE SelectionOf(_, _, _)
SelectionOf(hist, S, i) ==
  IF i > Len(hist) THEN <<>>
  ELSE (IF i \in S THEN <<hist[i]>> ELSE <<>>) \o SelectionOf(hist, S, i + 1)
CmpLists ==
  {SelectionOf(CmpHistory, S, 1) :
     S \in {T \in SUBSET (1..Len(CmpHistory)) : Cardinality(T) <= MaxCmp}}
\* current_period / previous_period: omitted, or a label of the period type
CmpArgs(period_type) ==
  {<<>>} \cup
  ( CASE period_type = "day" -> {<<2024, 2, 10>>, <<2024, 1, 10>>}
      [] period_type = "week" -> {<<2025, 1>>, <<2024, 1>>}
      [] period_type = "year" -> {<<2024>>, <<2023>>}
      [] OTHER -> {<<2024, 2>>, <<2024, 1>>} )

InitCmp ==
  /\ categories = {}
  /\ expenses \in CmpLists
  /\ categories_dict \in
       {{Category("c1", "Food", NoneStr), Category("c3", "Groceries", "c1")}}
  /\ result = NoResult
  /\ today \in CmpTodays
  /\ store = {}
  /\ nextId = 1
  /\ calls = 0
  /\ last = NoOp
  /\ category_to_id = "unset"
  /\ edits = 0

NextCmp ==
  \E t \in PeriodTypes : \E c, p \in CmpArgs(t) : CallComparePeriods(t, c, p)
SpecCmp == InitCmp /\ [][NextCmp]_vars

\* histories for the anomaly detector: a category with the amounts 10, 12,
\* 11 and 500, and a day with several transactions
MaxAnom == 4
AnomFactors == {Q(2), Q(1), Frac(1, 2)}
AnomHistory ==
  <<Expense(Num(10), "c1", <<2024, 2, 1>>, "x", 1, "u1", NoneStr, FALSE,
            NoneStr, NoDate, <<>>, FALSE, <<2024, 2, 1>>),
    Expense(Num(12), "c1", <<2024, 2, 2>>, "x", 2, "u1", NoneStr, FALSE,
            NoneStr, NoDate, <<>>, FALSE, <<2024, 2, 2>>),
    Expense(Num(11), "c1", <<2024, 2, 3>>, "x", 3, "u1", NoneStr, FALSE,
            NoneStr, NoDate, <<>>, FALSE, <<2024, 2, 3>>),
    Expense(Num(500), "c1", <<2024, 2, 4>>, "x", 4, "u1", NoneStr, FALSE,
            NoneStr, NoDate, <<>>, FALSE, <<2024, 2, 4>>),
    Expense(Num(10), "c3", <<2024, 2, 4>>, "x", 5, "u1", NoneStr, FALSE,
            NoneStr, NoDate, <<>>, FALSE, <<2024, 2, 4>>),
    Expense(Num(20), "c3", <<2024, 2, 4>>, "x", 6, "u1", NoneStr, FALSE,
            NoneStr, NoDate, <<>>, TRUE, <<2024, 2, 4>>),
    Expense(Num(10), "c3", <<2024, 2, 5>>, "x", 7, "u1", NoneStr, FALSE,
            NoneStr, NoDate, <<>>, FALSE, <<2024, 2, 5>>)>>
AnomLists ==
  {SelectionOf(AnomHistory, S, 1) :
     S \in {T \in SUBSET (1..Len(AnomHistory)) : Cardinality(T) <= MaxAnom}}

InitAnom ==
  /\ categories = {}
  /\ expenses \in AnomLists
  /\ categories_dict \in
       {{Category("c1", "Food", NoneStr), Category("c3", "Groceries", "c1")}}
  /\ result = NoResult
  /\ today \in Todays
  /\ store = {}
  /\ nextId = 1
  /\ calls = 0
  /\ last = NoOp
  /\ category_to_id = "unset"
  /\ edits = 0

NextAnom == \E f \in AnomFactors : CallDetectAnomalies(f)
SpecAnom == InitAnom /\ [][NextAnom]_vars

\* small categories: every list of up to MaxFew transactions of one category
\* whose amounts are 1, 10, 400 or 500 spent or 1 or 500 received
MaxFew == 5
FewKinds ==
  <<[amount |-> 1, is_income |-> FALSE], [amount |-> 10, is_income |-> FALSE],
    [amount |-> 400, is_income |-> FALSE],
    [amount |-> 500, is_income |-> FALSE],
    [amount |-> 1, is_income |-> TRUE], [amount |-> 500, is_income |-> TRUE]>>
FewList(kinds) ==
  [i \in 1..Len(kinds) |->
     Expense(Num(FewKinds[kinds[i]].amount), "c1", <<2024, 2, i>>, "x", i,
             "u1", NoneStr, FALSE, NoneStr, NoDate, <<>>,
             FewKinds[kinds[i]].is_income, <<2024, 2, i>>)]
FewLists ==
  UNION {{FewList(kinds) :
            kinds \in {f \in [1..n -> 1..Len(FewKinds)] :
                         \A i \in 1..(n - 1) : f[i] <= f[i + 1]}} :
           n \in 1..MaxFew}
InitFew ==
  /\ categories = {}
  /\ expenses \in FewLists
  /\ categories_dict \in
       {{Category("c1", "Food", NoneStr), Category("c3", "Groceries", "c1")}}
  /\ result = NoResult
  /\ today \in Todays
  /\ store = {}
  /\ nextId = 1
  /\ calls = 0
  /\ last = NoOp
  /\ category_to_id = "unset"
  /\ edits = 0
NextFew == CallDetectAnomalies(Q(2))
SpecFew == InitFew /\ [][NextFew]_vars

\* histories for the forecast: spending of 100, 200, 300 and 400 in four
\* consecutive months, a second category with two expenses in one month and
\* a late small one, and months with income
MaxFc == 4
FcMonths == {1, 3, 9}
FcHistory ==
  <<Expense(Num(100), "c1", <<2024, 1, 10>>, "x", 1, "u1", NoneStr, FALSE,
            NoneStr, NoDate, <<>>, FALSE, <<2024, 1, 10>>),
    Expense(Num(200), "c1", <<2024, 2, 10>>, "x", 2, "u1", NoneStr, FALSE,
            NoneStr, NoDate, <<>>, FALSE, <<2024, 2, 10>>),
    Expense(Num(300), "c1", <<2024, 3, 10>>, "x", 3, "u1", NoneStr, FALSE,
            NoneStr, NoDate, <<>>, FALSE, <<2024, 3, 10>>),
    Expense(Num(400), "c1", <<2024, 4, 10>>, "x", 4, "u1", NoneStr, FALSE,
            NoneStr, NoDate, <<>>, FALSE, <<2024, 4, 10>>),
    Expense(Num(50), "c1", <<2024, 5, 10>>, "x", 5, "u1", NoneStr, FALSE,
            NoneStr, NoDate, <<>>, TRUE, <<2024, 5, 10>>),
    Expense(Num(100), "c3", <<2024, 2, 20>>, "x", 6, "u1", NoneStr, FALSE,
            NoneStr, NoDate, <<>>, FALSE, <<2024, 2, 20>>),
    Expense(Num(70), "c1", <<2024, 3, 15>>, "x", 7, "u1", NoneStr, FALSE,
            NoneStr, NoDate, <<>>, TRUE, <<2024, 3, 15>>),
    Expense(Num(30), "c3", <<2024, 5, 5>>, "x", 8, "u1", NoneStr, FALSE,
            NoneStr, NoDate, <<>>, FALSE, <<2024, 5, 5>>),
    Expense(Num(20), "c3", <<2024, 2, 25>>, "x", 9, "u1", NoneStr, FALSE,
            NoneStr, NoDate, <<>>, FALSE, <<2024, 2, 25>>)>>
FcLists ==
  {SelectionOf(FcHistory, S, 1) :
     S \in {T \in SUBSET (1..Len(FcHistory)) : Cardinality(T) <= MaxFc}}

InitFc ==
  /\ categories = {}
  /\ expenses \in FcLists
  /\ categories_dict \in
       {{Category("c1", "Food", NoneStr), Category("c3", "Groceries", "c1")}}
  /\ result = NoResult
  /\ today \in Todays
  /\ store = {}
  /\ nextId = 1
  /\ calls = 0
  /\ last = NoOp
  /\ category_to_id = "unset"
  /\ edits = 0

NextFc == \E m \in FcMonths : CallPredict(m)
SpecFc == InitFc /\ [][NextFc]_vars

\* ------------------------------------------------------ the category store
\* Category.__init__ and to_dict, the fields that matter here.  The ids are
\* fresh uuids, numbered from 1; NoId is None where an id is expected
NoId == 0
StoredCategory(name, parent_id, category_id, user_id) ==
  [name |-> name, parent_id |-> parent_id, category_id |-> category_id,
   user_id |-> user_id]
\* Category.get_all_categories(user_id): the global files and the user's
get_all_categories(cats, user_id) ==
  {c \in cats : c.user_id = NoneStr}
    \cup {c \in cats : user_id # NoneStr /\ c.user_id = user_id}
\* Category.save: one file per (user_id, category_id)
SaveCategoryFile(cats, c) ==
  {x \in cats : ~(x.user_id = c.user_id /\ x.category_id = c.category_id)}
    \cup {c}
\* create_default_categories, lines 202-213 and 216-279
DefaultMain ==
  <<"Housing", "Transportation", "Food", "Utilities", "Healthcare",
    "Personal", "Entertainment", "Education", "Savings", "Income">>
DefaultSub ==
  <<<<"Rent/Mortgage", "Housing">>, <<"Home Insurance", "Housing">>,
    <<"Property Tax", "Housing">>, <<"Repairs", "Housing">>,
    <<"Furniture", "Housing">>, <<"Car Payment", "Transportation">>,
    <<"Fuel", "Transportation">>, <<"Insurance", "Transportation">>,
    <<"Maintenance", "Transportation">>,
    <<"Public Transit", "Transportation">>, <<"Groceries", "Food">>,
    <<"Restaurants", "Food">>, <<"Fast Food", "Food">>,
    <<"Coffee Shops", "Food">>, <<"Electricity", "Utilities">>,
    <<"Water", "Utilities">>, <<"Gas", "Utilities">>,
    <<"Internet", "Utilities">>, <<"Phone", "Utilities">>,
    <<"Insurance", "Healthcare">>, <<"Medications", "Healthcare">>,
    <<"Doctor", "Healthcare">>, <<"Dental", "Healthcare">>,
    <<"Clothing", "Personal">>, <<"Gym", "Personal">>,
    <<"Haircut", "Personal">>, <<"Cosmetics", "Personal">>,
    <<"Movies", "Entertainment">>, <<"Music", "Entertainment">>,
    <<"Games", "Entertainment">>, <<"Streaming Services", "Entertainment">>,
    <<"Hobbies", "Entertainment">>, <<"Tuition", "Education">>,
    <<"Books", "Education">>, <<"Courses", "Education">>,
    <<"Emergency Fund", "Savings">>, <<"Retirement", "Savings">>,
    <<"Investments", "Savings">>, <<"Salary", "Income">>,
    <<"Bonus", "Income">>, <<"Interest", "Income">>,
    <<"Dividends", "Income">>>>
\* lines 293 and 298: parent_map, the id given to the main category of a name
ParentMap(parent, nid) ==
  nid - 1 + CHOOSE i \in 1..Len(DefaultMain) : DefaultMain[i] = parent
\* lines 282-311: the files create_default_categories writes, ids from nid
create_default_categories(user_id, nid) ==
  {StoredCategory(DefaultMain[i], NoId, nid - 1 + i, user_id) :
     i \in 1..Len(DefaultMain)}
    \cup {StoredCategory(DefaultSub[j][1], ParentMap(DefaultSub[j][2], nid),
                         nid - 1 + Len(DefaultMain) + j, user_id) :
            j \in {k \in 1..Len(DefaultSub) :
                     \E i \in 1..Len(DefaultMain) :
                       DefaultMain[i] = DefaultSub[k][2]}}
NoCategory == StoredCategory(NoneStr, NoId, NoId, NoneStr)
\* what the most recent category operation did
CatOp(name, user_id, target, raised) ==
  [op |-> name, user_id |-> user_id, target |-> target, raised |-> raised]

\* ui/login.py lines 122-124 and 268: a user without categories gets the
\* default set, at sign-up or at the first login
CreateDefaultCategories(user_id) ==
  /\ get_all_categories(categories, user_id) = {}
  /\ categories' = categories \cup create_default_categories(user_id, nextId)
  /\ nextId' = nextId + Len(DefaultMain) + Len(DefaultSub)
  /\ last' = CatOp("create_default_categories", user_id, NoCategory, "none")
  /\ UNCHANGED <<store, today, calls, category_to_id, edits, anVars>>

\* What the logged-in user types and clicks: names, budgets, and the cards
\* of the categories with these names; up to MaxSaves forms are accepted.
MaxSaves == 2
NameStrs == {"", "Pets"}
BudgetStrs == {"10", "abc"}
ClickNames == {"Food", "Groceries", "Pets"}
\* CategoriesFrame.refresh_data: self.categories
FrameCategories(user_id) == get_all_categories(categories, user_id)
\* _show_categories_list lines 168-185: the cards with an Add Subcategory
\* button, and every category with an Edit and a Delete button
Standalone(user_id) ==
  {c \in FrameCategories(user_id) : c.parent_id = NoId}
Shown(user_id) ==
  LET all == FrameCategories(user_id)
      cards == {c.category_id : c \in {x \in all : x.parent_id = NoId}}
  IN {c \in all : c.parent_id = NoId \/ c.parent_id \in cards}
LoggedIn(user_id) == FrameCategories(user_id) # {}
\* lines 469-477, 492-500 and 516-524: the form is refused
Rejected(name, budget) == name = "" \/ ~ParseFloat(budget).ok

\* CategoriesFrame._save_category
SaveCategory(user_id, name, budget) ==
  /\ LoggedIn(user_id)
  /\ IF Rejected(name, budget)
     THEN /\ UNCHANGED <<categories, nextId, edits>>
          /\ last' = CatOp("save_category", user_id, NoCategory, "rejected")
     ELSE /\ edits < MaxSaves
          /\ edits' = edits + 1
          /\ categories' =
               SaveCategoryFile(categories,
                                StoredCategory(name, NoId, nextId, user_id))
          /\ nextId' = nextId + 1
          /\ last' = CatOp("save_category", user_id, NoCategory, "none")
  /\ UNCHANGED <<store, today, calls, category_to_id, anVars>>
\* the new category made its own parent
OwnId(parent_category, nid) == nid
\* _show_add_subcategory_dialog lines 396-398: the id of the card's category
ParentId(parent_category, nid) == parent_category.category_id
\* CategoriesFrame._save_subcategory, from the dialog of a standalone card
SaveSubcategory(user_id, parent_category, name, budget) ==
  /\ LoggedIn(user_id)
  /\ parent_category \in Standalone(user_id)
  /\ IF Rejected(name, budget)
     THEN /\ UNCHANGED <<categories, nextId, edits>>
          /\ last' = CatOp("save_subcategory", user_id, parent_category,
                           "rejected")
     ELSE /\ edits < MaxSaves
          /\ edits' = edits + 1
          /\ categories' =
               SaveCategoryFile(categories,
                                StoredCategory(name,
                                               ParentId(parent_category,
                                                        nextId),
                                               nextId, user_id))
          /\ nextId' = nextId + 1
          /\ last' = CatOp("save_subcategory", user_id, parent_category,
                           "none")
  /\ UNCHANGED <<store, today, calls, category_to_id, anVars>>
\* CategoriesFrame._update_category: name, budget and color change, the id,
\* the parent and the owner stay
UpdateCategory(user_id, category, name, budget) ==
  /\ LoggedIn(user_id)
  /\ category \in Shown(user_id)
  /\ IF Rejected(name, budget)
     THEN /\ UNCHANGED <<categories, edits>>
          /\ last' = CatOp("update_category", user_id, category, "rejected")
     ELSE /\ edits < MaxSaves
          /\ edits' = edits + 1
          /\ categories' =
               SaveCategoryFile(categories, [category EXCEPT !.name = name])
          /\ last' = CatOp("update_category", user_id, category, "none")
  /\ UNCHANGED <<store, today, nextId, calls, category_to_id, anVars>>
\* CategoriesFrame._confirm_delete_category.  Category (category.py lines
\* 11-346) defines to_dict, from_dict, save, load, get_all_categories,
\* create_default_categories and get_full_path and no delete, so line 551
\* raises AttributeError before any file is removed; line 562 catches it
\* and shows an error message.
ConfirmDeleteCategory(user_id, category, yes) ==
  /\ LoggedIn(user_id)
  /\ category \in Shown(user_id)
  /\ last' = CatOp(IF yes THEN "confirm_delete_category"
                   ELSE "decline_delete_category", user_id, category,
                   IF yes THEN "AttributeError" ELSE "none")
  /\ UNCHANGED <<categories, store, today, nextId, calls, category_to_id,
                 edits, anVars>>

InitCat ==
  /\ categories = {}
  /\ expenses = <<>>
  /\ categories_dict = <<>>
  /\ result = NoResult
  /\ today \in {<<2024, 2, 1>>}
  /\ store = {}
  /\ nextId = 1
  /\ calls = 0
  /\ last = NoOp
  /\ category_to_id = "unset"
  /\ edits = 0
Clicked(user_id) == {c \in Shown(user_id) : c.name \in ClickNames}
\* both users sign up; the first one works in the categories frame
Clickers == {"u1"}
NextCat ==
  \/ \E u \in Users : CreateDefaultCategories(u)
  \/ \E u \in Clickers :
       \/ \E name \in NameStrs, budget \in BudgetStrs :
            \/ SaveCategory(u, name, budget)
            \/ \E c \in Clicked(u) :
                 \/ SaveSubcategory(u, c, name, budget)
                 \/ UpdateCategory(u, c, name, budget)
       \/ \E c \in Clicked(u), yes \in BOOLEAN :
            ConfirmDeleteCategory(u, c, yes)
SpecCat == InitCat /\ [][NextCat]_vars

\* category lookups for the path: up to MaxDict of a chain of three, a
\* category whose parent is in no lookup, and a second root with a child
MaxDict == 4
PathPool ==
  {Category("c1", "Food", NoneStr), Category("c2", "Groceries", "c1"),
   Category("c3", "Organic", "c2"), Category("c4", "Orphan", "c9"),
   Category("c5", "Fun", NoneStr), Category("c6", "Games", "c5")}
InitPath ==
  /\ categories = {}
  /\ categories_dict \in {d \in SUBSET PathPool : Cardinality(d) <= MaxDict}
  /\ expenses = <<>>
  /\ result = NoResult
  /\ today \in Todays
  /\ store = {}
  /\ nextId = 1
  /\ calls = 0
  /\ last = NoOp
  /\ category_to_id = "unset"
  /\ edits = 0
NextPath == \E self \in PathPool : CallGetFullPath(self)
SpecPath == InitPath /\ [][NextPath]_vars

\* ===================================================== recurring generator
IsGen == last.op = "generate"
Created == {last.created[i] : i \in 1..Len(last.created)}
SameSeries(a, b) ==
  /\ a.description = b.description
  /\ FEq(a.amount, b.amount)
  /\ a.category_id = b.category_id
\* the recurring transactions the call looked at
Templates == {e \in last.before : e.user_id = last.user_id /\ e.recurring}
\* the date of the latest stored instance of e's series before the call
SeriesDates(e) ==
  {x.date : x \in {y \in last.before :
                     y.user_id = last.user_id /\ SameSeries(y, e)}}
SeriesLatest(e) ==
  CHOOSE d \in SeriesDates(e) : \A o \in SeriesDates(e) : DateLe(o, d)
\* latest instance date plus one period, as the specification words it
PlusOnePeriod(period, d) ==
  CASE period = "daily" -> AddDays(d, 1)
    [] period = "weekly" -> AddDays(d, 7)
    [] period = "monthly" ->
         <<IF d[2] = 12 THEN d[1] + 1 ELSE d[1],
           IF d[2] = 12 THEN 1 ELSE d[2] + 1, d[3]>>
    [] period = "yearly" -> <<d[1] + 1, d[2], d[3]>>
    [] OTHER -> NoDate

\* C1: a call of generate_recurring_expenses creates at most one new
\* transaction for each series (same description, amount and category_id),
\* also when the series holds several instances flagged recurring.
C1_AtMostOnePerSeries ==
  IsGen => \A i, j \in 1..Len(last.created) :
             SameSeries(last.created[i].exp, last.created[j].exp) => i = j

\* C2: a recurring transaction whose end date is strictly before today
\* yields no instance; one whose end date is today, later or unset and whose
\* next due date is on or before today yields an instance.
C2_EndDateRule ==
  IsGen =>
    \A e \in Templates :
      /\ Ended(e, last.today) => \A c \in Created : c.from # e
      /\ ( /\ ~Ended(e, last.today)
           /\ SeriesDates(e) # {}
           /\ e.recurring_period \in Periods
           /\ ValidDate(PlusOnePeriod(e.recurring_period, SeriesLatest(e)))
           /\ DateLe(PlusOnePeriod(e.recurring_period, SeriesLatest(e)),
                     last.today) )
         => \E c \in Created : c.from = e

\* C3: for a monthly series the call completes without raising and the next
\* due date is the same day-of-month in the next calendar month (December
\* rolls to January of the following year), whatever the latest date is.
C3_MonthlyNextMonth ==
  (IsGen /\ \A e \in Templates :
              e.recurring_period = "monthly" /\ ~FIsNaN(e.amount))
    => /\ ~last.raised
       /\ \A c \in Created :
            c.next = PlusOnePeriod("monthly", SeriesLatest(c.from))

\* C4: every created transaction is dated latest instance date plus one
\* period, copies the template's fields, is flagged recurring, belongs to
\* the calling user, is stored, and has an id no existing transaction has.
C4_CreatedCopiesTemplate ==
  IsGen =>
    /\ \A c \in Created :
         /\ c.from \in Templates
         /\ c.exp.date = PlusOnePeriod(c.from.recurring_period,
                                       SeriesLatest(c.from))
         /\ FEq(c.exp.amount, c.from.amount)
         /\ c.exp.category_id = c.from.category_id
         /\ c.exp.description = c.from.description
         /\ c.exp.payment_method = c.from.payment_method
         /\ c.exp.recurring_period = c.from.recurring_period
         /\ c.exp.recurring_end_date = c.from.recurring_end_date
         /\ c.exp.tags = c.from.tags
         /\ c.exp.is_income = c.from.is_income
         /\ c.exp.recurring
         /\ c.exp.user_id = last.user_id
         /\ c.exp \in store
         /\ \A x \in last.before : x.expense_id # c.exp.expense_id
    /\ \A i, j \in 1..Len(last.created) :
         last.created[i].exp.expense_id = last.created[j].exp.expense_id
           => i = j
C4_Witness ==
  IsGen /\ \E c \in Created : DateLt(c.exp.date, last.today)
                              /\ c.exp.tags # <<>> /\ c.from.expense_id <= NSeeds

\* ======================================================== monthly summary
IsSummary == result.fn = "get_monthly_summary"
RECURSIVE SumIf(_, _, _)
\* the sum of the stored amounts of the transactions with is_income = inc
SumIf(exps, inc, i) ==
  IF i > Len(exps) THEN 0
  ELSE (IF exps[i].is_income = inc THEN exps[i].amount.v ELSE 0)
       + SumIf(exps, inc, i + 1)
NonNegativeList == \A i \in 1..Len(expenses) : FGe0(expenses[i].amount)

\* C6: the summary of any transaction list has
\* net = total_income - total_expenses.
C6_NetIsDifference ==
  IsSummary => /\ result.value.net.k = "num"
               /\ result.value.net.v = result.value.total_income.v
                                       - result.value.total_expenses.v
C6_Witness ==
  /\ IsSummary
  /\ result.value.total_income.v > 0
  /\ result.value.total_expenses.v > 0
  /\ result.value.net.v < 0

\* C7: for non-negative amounts, total_income is the sum of the amounts
\* with is_income true and total_expenses the sum of those with is_income
\* false.
C7_TotalsByFlag ==
  (IsSummary /\ NonNegativeList)
    => /\ result.value.total_income = Num(SumIf(expenses, TRUE, 1))
       /\ result.value.total_expenses = Num(SumIf(expenses, FALSE, 1))
C7_Witness ==
  /\ IsSummary /\ NonNegativeList
  /\ result.value.total_income.v > 0
  /\ result.value.total_expenses.v > 0

\* the direct category name of a transaction, from the lookup alone
DirectName(e) ==
  IF \E c \in categories_dict : c.category_id = e.category_id
  THEN (CHOOSE c \in categories_dict : c.category_id = e.category_id).name
  ELSE "Unknown"
RECURSIVE SignedSumOf(_, _, _)
SignedSumOf(exps, name, i) ==
  IF i > Len(exps) THEN 0
  ELSE (IF DirectName(exps[i]) = name
        THEN (IF exps[i].is_income THEN exps[i].amount.v
              ELSE -exps[i].amount.v)
        ELSE 0)
       + SignedSumOf(exps, name, i + 1)
\* C9: by_category has one entry per distinct direct category name
\* (subcategories under their own name, unknown ids under 'Unknown'), with
\* the group's signed sum and its number of transactions.
C9_ByDirectCategory ==
  IsSummary =>
    LET names == {DirectName(expenses[i]) : i \in 1..Len(expenses)}
        bc == result.value.by_category
    IN /\ {b.category : b \in bc} = names
       /\ Cardinality(bc) = Cardinality(names)
       /\ \A b \in bc :
            /\ b.amount = Num(SignedSumOf(expenses, b.category, 1))
            /\ b.count = Cardinality({i \in 1..Len(expenses) :
                                        DirectName(expenses[i]) = b.category})
C9_Witness ==
  /\ IsSummary
  /\ \E b \in result.value.by_category : b.category = "Groceries"
  /\ \E b \in result.value.by_category : b.category = "Unknown"
  /\ \A b \in result.value.by_category : b.category # "Food"

C8_EmptyInput ==
  expenses = <<>> =>
    /\ result.raised = "none"
    /\ result.fn = "get_monthly_summary" =>
         /\ result.value.total_income = Num(0)
         /\ result.value.total_expenses = Num(0)
         /\ result.value.net = Num(0)
         /\ result.value.by_category = {}
         /\ result.value.by_month = {}
         /\ result.value.by_day = {}
    /\ result.fn = "compare_time_periods" =>
         /\ result.value.current_period = <<>>
         /\ result.value.previous_period = <<>>
         /\ result.value.change = <<>>
         /\ result.value.percent_change = <<>>
    /\ result.fn = "detect_spending_anomalies" => result.value = {}
    /\ result.fn = "predict_monthly_expenses" =>
         /\ result.value.predictions = {}
         /\ result.value.confidence = "low"
C8_Witness ==
  /\ expenses = <<>>
  /\ result.fn = "predict_monthly_expenses"
  /\ result.value.confidence = "low"
  /\ categories_dict # {}


\* ====================================================== period comparison
IsCompare ==
  /\ result.fn = "compare_time_periods"
  /\ result.raised = "none"
  /\ expenses # <<>>
Metrics == {"income", "expenses", "net"}
\* pc is the number (cur - prev) / |prev| * 100
IsPercentOf(pc, cur, prev) ==
  /\ pc.k = "num"
  /\ pc.n * Abs(prev) = (cur - prev) * 100 * pc.d

\* C11: when the previous value is non-zero, percent_change is
\* (current - previous) / |previous| * 100 for income, expenses and net and
\* for every category of the category comparison; current expenses 200
\* against previous expenses 100 give percent_change.expenses = 100.
C11_PercentChange ==
  IsCompare =>
    /\ \A m \in Metrics :
         result.value.previous_period[m] # 0 =>
           IsPercentOf(result.value.percent_change[m],
                       result.value.current_period[m],
                       result.value.previous_period[m])
    /\ \A c \in result.value.categories :
         c.previous # 0 => IsPercentOf(c.percent_change, c.current, c.previous)
    /\ ( /\ result.value.current_period.expenses = 200
         /\ result.value.previous_period.expenses = 100 )
       => result.value.percent_change.expenses = [k |-> "num", n |-> 100,
                                                  d |-> 1]
C11_Witness ==
  /\ IsCompare
  /\ result.value.current_period.expenses = 200
  /\ result.value.previous_period.expenses = 100
  /\ result.value.percent_change.expenses.n = 100
  /\ \E c \in result.value.categories :
       c.previous < 0 /\ c.percent_change.k = "num" /\ c.percent_change.n < 0


\* C12: when the previous value of a metric or of a category is exactly zero
\* and the list is not empty, the call does not raise and that percent_change
\* is a sentinel (float('inf')) that is neither 0 nor any finite percentage,
\* also when the current value is zero too.
C12_NoBaselineSentinel ==
  (result.fn = "compare_time_periods" /\ expenses # <<>>) =>
    /\ result.raised = "none"
    /\ \A m \in Metrics :
         result.value.previous_period[m] = 0 =>
           result.value.percent_change[m].k = "inf"
    /\ \A c \in result.value.categories :
         c.previous = 0 => c.percent_change.k = "inf"
C12_Witness ==
  /\ IsCompare
  /\ result.value.previous_period.income = 0
  /\ result.value.current_period.income = 0
  /\ result.value.percent_change.income.k = "inf"
  /\ result.value.previous_period.expenses = 0
  /\ result.value.current_period.expenses > 0
  /\ \E c \in result.value.categories : c.previous = 0 /\ c.current # 0


\* the period immediately preceding a period label
Preceding(period_type, cur) ==
  CASE period_type = "day" -> PrevDay(cur)
    [] period_type = "week" ->
         IF cur[2] = 1 THEN <<cur[1] - 1, WeeksInYear(cur[1] - 1)>>
         ELSE <<cur[1], cur[2] - 1>>
    [] period_type = "year" -> <<cur[1] - 1>>
    [] OTHER -> IF cur[2] = 1 THEN <<cur[1] - 1, 12>>
                ELSE <<cur[1], cur[2] - 1>>

\* C13: called without previous_period, compare_time_periods uses the period
\* immediately preceding current_period (previous day, ISO week, month or
\* year), for every period_type, also when current_period is given and is
\* not the period of the current date.
C13_DefaultPreviousPeriod ==
  (IsCompare /\ result.args.previous_period = <<>>) =>
    result.value.previous_period.label =
      Preceding(result.args.period_type, result.value.current_period.label)
\* the same for the calls that leave current_period out as well, on a day
\* whose ISO year is its calendar year
C13_DefaultOfToday ==
  ( /\ IsCompare
    /\ result.args.previous_period = <<>>
    /\ result.args.current_period = <<>>
    /\ result.now # <<2024, 12, 30>> ) =>
    result.value.previous_period.label =
      Preceding(result.args.period_type, result.value.current_period.label)


\* the ISO year of a date: date.isocalendar()[0]
IsoYear(dt) ==
  LET doy == DaysBeforeMonth(dt[1], dt[2]) + dt[3]
      w == (doy - (Weekday(dt) + 1) + 10) \div 7
  IN IF w < 1 THEN dt[1] - 1
     ELSE IF w > WeeksInYear(dt[1]) THEN dt[1] + 1
     ELSE dt[1]
RECURSIVE SumInWeek(_, _, _, _)
\* the sum of the amounts of the transactions with is_income = inc dated in
\* ISO week label[2] of ISO year label[1]
SumInWeek(exps, label, inc, i) ==
  IF i > Len(exps) THEN 0
  ELSE (IF /\ exps[i].is_income = inc
           /\ <<IsoYear(exps[i].date), IsoWeek(exps[i].date)>> = label
        THEN exps[i].amount.v ELSE 0)
       + SumInWeek(exps, label, inc, i + 1)

\* C14: with period_type 'week' a period 'YYYY-Www' gets exactly the
\* transactions dated in ISO week ww of ISO year YYYY, also for the dates at
\* the turn of the year whose ISO year is not their calendar year.
C14_IsoWeekAttribution ==
  (IsCompare /\ result.args.period_type = "week") =>
    \A side \in {result.value.current_period, result.value.previous_period} :
      /\ side.income = SumInWeek(expenses, side.label, TRUE, 1)
      /\ side.expenses = SumInWeek(expenses, side.label, FALSE, 1)
\* the same for the transactions whose ISO year is their calendar year
C14_WithinCalendarYear ==
  ( /\ IsCompare
    /\ result.args.period_type = "week"
    /\ \A i \in 1..Len(expenses) :
         IsoYear(expenses[i].date) = expenses[i].date[1] ) =>
    \A side \in {result.value.current_period, result.value.previous_period} :
      /\ side.income = SumInWeek(expenses, side.label, TRUE, 1)
      /\ side.expenses = SumInWeek(expenses, side.label, FALSE, 1)


\* the transaction is dated in the day, month or year a label names
InLabel(e, period_type, label) ==
  CASE period_type = "day" -> e.date = label
    [] period_type = "year" -> <<e.date[1]>> = label
    [] OTHER -> <<e.date[1], e.date[2]>> = label
\* the direct category names of the transactions of a period
NamesIn(period_type, label) ==
  {DirectName(expenses[i]) :
     i \in {j \in 1..Len(expenses) :
              InLabel(expenses[j], period_type, label)}}
Keys(by_category) == {x.category : x \in by_category}
AmountOf(by_category, c) ==
  IF c \in Keys(by_category)
  THEN (CHOOSE x \in by_category : x.category = c).amount
  ELSE 0

IsAnomalies ==
  /\ result.fn = "detect_spending_anomalies"
  /\ result.raised = "none"
  /\ expenses # <<>>
Large == {a \in result.value : a.anomaly_type = "large_transaction"}
\* the ids of the supplied transactions of a category
IdsOf(name) ==
  {expenses[i].expense_id :
     i \in {j \in 1..Len(expenses) : DirectName(expenses[j]) = name}}

\* C16: with threshold_factor 2.0 a category with the amounts 10, 12, 11 and
\* 500 has the 500 reported as large_transaction, and a category with the
\* amounts 10, 12 and 11 has no large_transaction reported.
C16_FlagsTheOutlier ==
  (IsAnomalies /\ result.args.threshold_factor = Q(2)) =>
    /\ IdsOf("Food") = {1, 2, 3, 4} =>
         \E a \in Large : a.expense_id = 4 /\ a.category = "Food"
    /\ IdsOf("Food") = {1, 2, 3} => \A a \in Large : a.category # "Food"
\* the second half alone
C16_NoneAmongThree ==
  (IsAnomalies /\ result.args.threshold_factor = Q(2)) =>
    (IdsOf("Food") = {1, 2, 3} => \A a \in Large : a.category # "Food")


Signed(e) == IF e.is_income THEN e.amount.v ELSE -e.amount.v
\* the indices of the supplied transactions of e's category
Group(e) == {j \in 1..Len(expenses) : DirectName(expenses[j]) = DirectName(e)}
RECURSIVE SumOver(_, _)
\* the sum of the signed amounts, or of their squares, over a set of indices
SumOver(J, square) ==
  IF J = {} THEN 0
  ELSE LET j == CHOOSE x \in J : TRUE
           x == Signed(expenses[j])
       IN (IF square THEN x * x ELSE x) + SumOver(J \ {j}, square)
\* n * (n - 1) * variance of the group: 0 exactly when the sample std is 0
ScaledVar(J) ==
  Cardinality(J) * SumOver(J, TRUE) - SumOver(J, FALSE) * SumOver(J, FALSE)
NoStd(J) == Cardinality(J) = 1 \/ ScaledVar(J) = 0
\* |x| > threshold of the group J under the factor p / q, in integers:
\* without std   |x| > |S| / n * p / q
\* with std      |x| - |S| / n > sqrt(var) * p / q
AboveThreshold(x, J, f) ==
  LET n == Cardinality(J)
      S == SumOver(J, FALSE)
      D == Abs(x) * n - Abs(S)
  IN IF NoStd(J) THEN Abs(x) * n * f.d > Abs(S) * f.n
     ELSE /\ D > 0
          /\ D * D * f.d * f.d * (n - 1) > ScaledVar(J) * f.n * f.n * n
\* the rational q is num / den
IsRatio(q, num, den) == q.k = "num" /\ q.n * den = num * q.d

\* C17: a transaction is reported as large_transaction exactly when its
\* |signed amount| is strictly greater than its category's threshold:
\* |mean| * factor for one transaction or a sample std of 0, and
\* |mean| + std * factor otherwise; the report carries that threshold and
\* the category mean.
C17_LargeTransactionRule ==
  IsAnomalies =>
    LET f == result.args.threshold_factor
    IN /\ \A i \in 1..Len(expenses) :
            (\E a \in Large : a.expense_id = expenses[i].expense_id)
              <=> AboveThreshold(Signed(expenses[i]), Group(expenses[i]), f)
       /\ \A a \in Large :
            \E i \in 1..Len(expenses) :
              LET J == Group(expenses[i])
                  n == Cardinality(J)
                  S == SumOver(J, FALSE)
              IN /\ a.expense_id = expenses[i].expense_id
                 /\ a.category = DirectName(expenses[i])
                 /\ a.amount = Num(Signed(expenses[i]))
                 /\ IsRatio(a.average, S, n)
                 /\ IF NoStd(J)
                    THEN /\ IsRatio(a.threshold.base, Abs(S) * f.n, n * f.d)
                         /\ a.threshold.rad.n = 0
                    ELSE /\ IsRatio(a.threshold.base, Abs(S), n)
                         /\ IsRatio(a.threshold.rad,
                                    ScaledVar(J) * f.n * f.n,
                                    n * (n - 1) * f.d * f.d)
C17_Witness ==
  /\ IsAnomalies
  /\ \E a \in Large : a.threshold.rad.n > 0
  /\ \E a \in Large : a.threshold.rad.n = 0
  /\ \E i \in 1..Len(expenses) :
       /\ Cardinality(Group(expenses[i])) > 1
       /\ \A a \in Large : a.expense_id # expenses[i].expense_id


Frequent == {a \in result.value : a.anomaly_type = "high_frequency"}
Days == {expenses[i].date : i \in 1..Len(expenses)}
CountOn(d) == Cardinality({i \in 1..Len(expenses) : expenses[i].date = d})
RECURSIVE SumCounts(_, _)
\* the sum of the per-day counts, or of their squares, over a set of days
SumCounts(D, square) ==
  IF D = {} THEN 0
  ELSE LET d == CHOOSE x \in D : TRUE
       IN (IF square THEN CountOn(d) * CountOn(d) ELSE CountOn(d))
          + SumCounts(D \ {d}, square)
\* m * (m - 1) * variance of the per-day counts
ScaledCountVar ==
  Cardinality(Days) * SumCounts(Days, TRUE)
  - SumCounts(Days, FALSE) * SumCounts(Days, FALSE)
NoCountStd == Cardinality(Days) = 1 \/ ScaledCountVar = 0
\* count c > frequency threshold under the factor p / q, in integers
AboveFrequency(c, f) ==
  LET m == Cardinality(Days)
      S == SumCounts(Days, FALSE)
      D == c * m - S
  IN IF NoCountStd THEN c * m * f.d > S * f.n
     ELSE /\ D > 0
          /\ D * D * f.d * f.d * (m - 1) > ScaledCountVar * f.n * f.n * m

\* C18: a calendar day is reported as high_frequency exactly when the number
\* of supplied transactions dated that day is strictly greater than the
\* frequency threshold: mean * factor when the std of the per-day counts is
\* undefined or 0, mean + std * factor otherwise; the report carries the
\* day's count.
C18_HighFrequencyRule ==
  IsAnomalies =>
    /\ \A d \in Days :
         (\E a \in Frequent : a.date = d)
           <=> AboveFrequency(CountOn(d), result.args.threshold_factor)
    /\ \A a \in Frequent : a.date \in Days /\ a.count = CountOn(a.date)
    /\ \A a, b \in Frequent : a.date = b.date => a = b
C18_Witness ==
  /\ IsAnomalies
  /\ ~NoCountStd
  /\ \E a \in Frequent : a.count = 3
  /\ \E d \in Days : \A a \in Frequent : a.date # d


\* =============================================================== forecast
IsPredict == result.fn = "predict_monthly_expenses"
\* the calendar months that hold a transaction with is_income false
ExpenseMonths ==
  {<<expenses[i].date[1], expenses[i].date[2]>> :
     i \in {j \in 1..Len(expenses) : ~expenses[j].is_income}}
AllMonths ==
  {<<expenses[i].date[1], expenses[i].date[2]>> : i \in 1..Len(expenses)}

\* C19: with expense transactions in fewer than 3 distinct calendar months
\* the forecast returns without raising empty predictions, confidence 'low'
\* and a message; months that hold income only do not count.
C19_TooFewMonths ==
  (IsPredict /\ Cardinality(ExpenseMonths) < 3) =>
    /\ result.raised = "none"
    /\ result.value.predictions = {}
    /\ result.value.confidence = "low"
    /\ "message" \in DOMAIN result.value
C19_Witness ==
  /\ IsPredict
  /\ Cardinality(ExpenseMonths) = 2
  /\ Cardinality(AllMonths) >= 3
  /\ result.args.months_to_predict = 3
  /\ result.value.predictions = {}


\* the ids of the supplied transactions with is_income false
ExpenseIds ==
  {expenses[i].expense_id :
     i \in {j \in 1..Len(expenses) : ~expenses[j].is_income}}
FirstPrediction(month_year) ==
  {p.value : p \in {q \in result.value.predictions :
                      q.month_year = month_year}}

\* C20: monthly expense totals that are perfectly linear with a positive
\* slope (100, 200, 300, 400) give a first predicted month of the last total
\* plus the slope (500), trend 'increasing' and confidence 'high'.
C20_LinearForecast ==
  (IsPredict /\ ExpenseIds = {1, 2, 3, 4}) =>
    /\ result.raised = "none"
    /\ FirstPrediction(<<2024, 5>>) = {Q(500)}
    /\ result.value.trend = "increasing"
    /\ result.value.confidence = "high"


\* the sum of the amounts of the expense transactions of a month
SpentIn(my) ==
  LET J == {j \in 1..Len(expenses) :
              /\ ~expenses[j].is_income
              /\ <<expenses[j].date[1], expenses[j].date[2]>> = my}
  IN SumOver(J, FALSE)
\* the monthly expense totals in calendar order, as positive numbers
Totals ==
  LET months == SortMonths(ExpenseMonths)
  IN [i \in 1..Len(months) |-> Abs(SpentIn(months[i]))]
RECURSIVE Dot(_, _, _)
\* sum over i of a[i] * b[i]
Dot(a, b, i) == IF i > Len(a) THEN 0 ELSE a[i] * b[i] + Dot(a, b, i + 1)
Index(n) == [i \in 1..n |-> i - 1]
Ones(n) == [i \in 1..n |-> 1]
\* n * S_xy, n * S_xx and n * S_yy of the least-squares line through
\* (0, t[1]) .. (n - 1, t[n]); its R-squared is Sxy^2 / (Sxx * Syy)
Sxy(t) ==
  Len(t) * Dot(Index(Len(t)), t, 1)
  - Dot(Index(Len(t)), Ones(Len(t)), 1) * Dot(t, Ones(Len(t)), 1)
Sxx(t) ==
  Len(t) * Dot(Index(Len(t)), Index(Len(t)), 1)
  - Dot(Index(Len(t)), Ones(Len(t)), 1) * Dot(Index(Len(t)), Ones(Len(t)), 1)
Syy(t) ==
  Len(t) * Dot(t, t, 1) - Dot(t, Ones(Len(t)), 1) * Dot(t, Ones(Len(t)), 1)
ConfidenceOf(t) ==
  IF Syy(t) = 0 THEN "low"
  ELSE IF 10 * Sxy(t) * Sxy(t) > 7 * Sxx(t) * Syy(t) THEN "high"
  ELSE IF 10 * Sxy(t) * Sxy(t) < 3 * Sxx(t) * Syy(t) THEN "low"
  ELSE "medium"
IsForecast ==
  /\ IsPredict
  /\ result.raised = "none"
  /\ Cardinality(ExpenseMonths) >= 3

\* C21: with 3 months of expense data or more, confidence is 'high' exactly
\* when R-squared > 0.7, 'low' exactly when R-squared < 0.3 and 'medium'
\* otherwise, R-squared being 1 - SS_residual / SS_total of the line fitted
\* to the monthly totals, and 0 when SS_total is 0.
C21_ConfidenceFromRSquared ==
  IsForecast => result.value.confidence = ConfidenceOf(Totals)
\* the same against the r_squared the call reports
C21_ConfidenceFromReported ==
  IsForecast =>
    result.value.confidence =
      ( IF QLt(Frac(7, 10), result.value.r_squared) THEN "high"
        ELSE IF QLt(result.value.r_squared, Frac(3, 10)) THEN "low"
        ELSE "medium" )


AllPredictions ==
  result.value.predictions
    \cup UNION {c.predictions : c \in result.value.by_category}
\* the least-squares line through the totals is below zero m months on
LineBelowZero(t, m) ==
  /\ Sxy(t) < 0
  /\ 2 * Dot(t, Ones(Len(t)), 1) * Sxx(t)
       + Len(t) * (Len(t) - 1 + 2 * m) * Sxy(t) < 0

ForecastCategories == {c.category : c \in result.value.by_category}
\* the calendar months in which a category has an expense transaction
MonthsOf(name) ==
  {<<expenses[i].date[1], expenses[i].date[2]>> :
     i \in {j \in 1..Len(expenses) :
              ~expenses[j].is_income /\ DirectName(expenses[j]) = name}}
SpentCategories ==
  {DirectName(expenses[i]) :
     i \in {j \in 1..Len(expenses) : ~expenses[j].is_income}}

\* C23: when the overall forecast is produced, by_category holds a forecast
\* for exactly the categories with expense transactions in 3 distinct
\* calendar months or more; a category with fewer is absent, without error.
C23_CategoriesWithThreeMonths ==
  IsForecast =>
    /\ Cardinality(result.value.by_category) = Cardinality(ForecastCategories)
    /\ ForecastCategories =
         {name \in SpentCategories : Cardinality(MonthsOf(name)) >= 3}
C23_Witness ==
  /\ IsForecast
  /\ ForecastCategories = {"Food"}
  /\ MonthsOf("Groceries") # {}

\* the i-th calendar month after my
Following(my, i) ==
  <<(my[1] * 12 + my[2] - 1 + i) \div 12,
    ((my[1] * 12 + my[2] - 1 + i) % 12) + 1>>
LatestExpenseMonth ==
  CHOOSE my \in ExpenseMonths :
    \A other \in ExpenseMonths :
      other[1] * 12 + other[2] <= my[1] * 12 + my[2]
KeysOf(predictions) == {p.month_year : p \in predictions}

\* C30: a forecast has exactly months_to_predict entries, keyed by the
\* consecutive calendar months after the latest month that contains an
\* expense, December rolling to January of the next year; every per-category
\* forecast has the same keys, also when the category's latest month is
\* earlier.
C30_ForecastKeys ==
  IsForecast =>
    LET months == {Following(LatestExpenseMonth, i) :
                     i \in 1..result.args.months_to_predict}
    IN /\ Cardinality(result.value.predictions)
            = result.args.months_to_predict
       /\ KeysOf(result.value.predictions) = months
       /\ \A c \in result.value.by_category :
            /\ Cardinality(c.predictions) = result.args.months_to_predict
            /\ KeysOf(c.predictions) = months
C30_Witness ==
  /\ IsForecast
  /\ result.args.months_to_predict = 9
  /\ LatestExpenseMonth = <<2024, 5>>
  /\ <<2025, 2>> \in KeysOf(result.value.predictions)
  /\ \E c \in result.value.by_category :
       /\ \A my \in MonthsOf(c.category) : my[2] < 5
       /\ <<2025, 2>> \in KeysOf(c.predictions)


\* the number of supplied transactions of a category
SizeOf(name) ==
  Cardinality({j \in 1..Len(expenses) : DirectName(expenses[j]) = name})

\* C27: with the default threshold_factor 2.0 no large_transaction anomaly is
\* reported for a transaction of a category that has five or fewer
\* transactions, whatever their amounts.
C27_NoneAmongFive ==
  (IsAnomalies /\ result.args.threshold_factor = Q(2)) =>
    \A a \in Large : SizeOf(a.category) > 5
C27_Witness ==
  /\ IsAnomalies
  /\ result.args.threshold_factor = Q(2)
  /\ Len(expenses) = 5
  /\ \E i \in 1..5 :
       /\ expenses[i].amount = Num(500)
       /\ \A j \in (1..5) \ {i} :
            expenses[j].amount = Num(1) /\ ~expenses[j].is_income
  /\ Large = {}


\* C29: every transaction that generate_recurring_expenses creates is dated
\* strictly later than the latest instance its series had in the store the
\* call read, not later than the current date, and not later than its
\* recurring_end_date when one is set.
C29_CreatedDateBounds ==
  IsGen =>
    \A c \in Created :
      /\ SeriesDates(c.exp) # {}
      /\ DateLt(SeriesLatest(c.exp), c.exp.date)
      /\ DateLe(c.exp.date, last.today)
      /\ c.exp.recurring_end_date # NoDate
           => DateLe(c.exp.date, c.exp.recurring_end_date)
C29_Witness ==
  /\ IsGen
  /\ \E c \in Created :
       /\ c.exp.recurring_end_date = last.today
       /\ c.exp.date = last.today
       /\ DateLt(SeriesLatest(c.exp), c.exp.date)


\* C28: for a fixed current date and a store whose recurring transactions
\* all have a period among daily, weekly, monthly and yearly, repeated calls
\* of generate_recurring_expenses with nothing in between eventually return
\* an empty list.
C28_EventuallyEmpty ==
  <>(IsGen /\ ~last.raised /\ last.created = <<>>)
\* the calls eventually create nothing more: they return an empty list or
\* raise
C28_EventuallyNothingCreated ==
  <>[](IsGen /\ last.created = <<>>)
\* a call that creates an instance of a series moves the latest date of the
\* series one period on
C28_AdvancesByOnePeriod ==
  IsGen =>
    \A c \in Created :
      \A d \in {x.date : x \in {y \in store : y.user_id = last.user_id
                                              /\ SameSeries(y, c.exp)}} :
        DateLe(d, PlusOnePeriod(c.from.recurring_period, SeriesLatest(c.exp)))


\* ============================================================ category path
IsPath == result.fn = "get_full_path"
Known(id) == \E c \in categories_dict : c.category_id = id
TheCategory(id) == CHOOSE c \in categories_dict : c.category_id = id
\* the names from the topmost ancestor the lookup reaches down to c
RECURSIVE PathTo(_)
PathTo(c) ==
  IF c.parent_id = NoneStr \/ ~Known(c.parent_id) THEN c.name
  ELSE PathTo(TheCategory(c.parent_id)) \o " > " \o c.name

\* C24: get_full_path returns the category's own name when it has no parent,
\* otherwise the names of its ancestors and itself joined with ' > ' from
\* root to leaf; at a parent_id that the lookup does not hold it stops
\* without raising and returns the path so far, the own name alone when the
\* direct parent is missing.
C24_FullPath ==
  IsPath =>
    LET self == result.args.self
    IN /\ result.raised = "none"
       /\ self.parent_id = NoneStr => result.value = self.name
       /\ (self.parent_id # NoneStr /\ ~Known(self.parent_id))
            => result.value = self.name
       /\ result.value = PathTo(self)
C24_Witness ==
  /\ IsPath
  /\ result.args.self.name = "Organic"
  /\ result.value = "Food > Groceries > Organic"
\* a missing grandparent cuts the path, a missing parent leaves the name
C24_WitnessMissing ==
  /\ IsPath
  /\ result.args.self.name = "Organic"
  /\ result.value = "Groceries > Organic"


\* =========================================================== category store
\* the direct subcategories of c in the store
DirectSubcategories(c) ==
  {x \in categories : x.parent_id = c.category_id /\ x.user_id = c.user_id}
\* the step is a confirmed deletion of a main category
DeletesMain ==
  /\ last'.op = "confirm_delete_category"
  /\ last'.target.parent_id = NoId
  /\ last' # last

\* C25: when the user confirms the deletion of a main category, that
\* category and all its direct subcategories are removed from the category
\* store, and no other category is removed.
C25_DeleteCascades ==
  [][DeletesMain =>
       categories' =
         categories \ ({last'.target} \cup DirectSubcategories(last'.target))]_vars
\* the second half alone: nothing else is removed
C25_NoOtherRemoved ==
  [][DeletesMain =>
       \A x \in categories \ ({last'.target}
                                \cup DirectSubcategories(last'.target)) :
         x \in categories']_vars

\* the categories reached from c by following parent_id up to n times
RECURSIVE Ancestors(_, _)
Ancestors(c, n) ==
  IF n = 0 \/ c.parent_id = NoId THEN {}
  ELSE LET ps == {x \in categories : x.category_id = c.parent_id}
       IN ps \cup UNION {Ancestors(x, n - 1) : x \in ps}

\* C26: after any sequence of default-category creation, add category, add
\* subcategory, edit category and delete category, every stored category's
\* parent_id is unset or the id of a stored category of the same user, and
\* no category is its own ancestor.
C26_ParentsExistNoCycle ==
  \A c \in categories :
    /\ c.parent_id # NoId =>
         \E x \in categories :
           x.category_id = c.parent_id /\ x.user_id = c.user_id
    /\ c \notin Ancestors(c, Cardinality(categories))
C26_Witness ==
  /\ \E c, m \in categories :
       /\ c.name = "Pets" /\ m.name = "Pets"
       /\ c.parent_id = m.category_id
       /\ m.category_id > Len(DefaultMain) + Len(DefaultSub)
  /\ last.op = "confirm_delete_category"
  /\ \A u \in Users : get_all_categories(categories, u) # {}
  /\ last.target.name = "Pets"

====
